---------------------------- MODULE Spec2Model ----------------------------
(***************************************************************************)
(* Moment lifecycle engine of kindred-moment-echoes.                       *)
(*                                                                         *)
(* The repository holds two back ends over the same collections:           *)
(*   - the anonymousId / GeoJSON back end (suffix A): routes/moments.js,   *)
(*     models/Moment.js, jobs/cleanup.js (second half of models/Mood.js),  *)
(*     sockets/chatHandler.js;                                             *)
(*   - the userId back end (suffix B): routes/moments.js (part_002),       *)
(*     routes/moods.js, routes/posts.js, models/Mood.js, jobs/cleanup.js   *)
(*     (part_007), socket/handlers.js.                                     *)
(* Every await of a handler is a separate step, so handlers interleave at  *)
(* exactly the points where Node.js can switch between them.               *)
(*                                                                         *)
(* Time is counted in hours.  Latitude is counted in units of 0.0001       *)
(* degree (about 11.1 m); all requests share one longitude.                *)
(***************************************************************************)
EXTENDS Integers, Sequences, FiniteSets, TLC

(***************************************************************************)
(* Bounds of the model.                                                    *)
(***************************************************************************)
Users == {"u1", "u2"}
Reqs == {"r1", "r2"}
Conns == {"c1", "c2"}
Moods == {"calm", "cozy"}
MoodsA == {"calm", "happy"}
ReactionInputs == {"heart", "smile", "wow"}
MaxSaves == 3
VoteInputs == {[mood |-> "calm", intensity |-> 4], [mood |-> "cozy", intensity |-> 2]}
LocsA == {0, 4, 5}
LocsB == {0, 10, 11}
TimesA == {24, 744}
TimesB == {24, 180}
MaxMomentsA == 2
MaxMomentsB == 1
MaxPosts == 1
MaxMessages == 1
MaxChat == 2
MaxHistory == 21
TimesHistory == {24, 30, 50}
TimesPrune == {3, 4}
LastActivePrune == {0, 1, 2}
TimesSweep == {24, 30, 40, 170, 190}
CreatedAtSweep == {0, 12}
MaxSubmits == 2
MaxMoodRows == 3
MaxVotesPerMood == 4
SummaryMoods == {"calm", "cozy", "happy", "excited"}

(***************************************************************************)
(* Program constants.                                                      *)
(***************************************************************************)
WindowHours == 24
HardDeleteHours == 168
ArchiveDeleteHours == 720
JoinRadiusMeters == 50
validReactions == {"heart", "smile", "thoughtful", "grateful"}
LatDelta == 10
\* the longest chat message sockets/chatHandler.js accepts
MaxMessageLenA == 500
\* the longest chat message socket/handlers.js accepts
MaxMessageLenB == 200
\* both join handlers ask getRecentMessages for the last 20 messages
HistoryLimit == 20
\* inactiveThreshold = Date.now() - 30 * 60 * 1000
InactiveMinutes == 30
MinutesPerHour == 60

VARIABLES
    now,        \* wall clock, hours
    moments,    \* Moment collection: id -> document
    posts,      \* Post collection: id -> document
    moods,      \* Mood collection: id -> document
    messages,   \* ChatMessage collection: id -> document
    nextId,     \* next ObjectId of each collection
    req,        \* in-flight HTTP / socket handlers and their locals
    sweep,      \* the cleanup job: position and captured cut-off times
    sockets     \* Socket.IO connections: their user and the room they joined

vars == <<now, moments, posts, moods, messages, nextId, req, sweep, sockets>>

(***************************************************************************)
(* Helpers.                                                                *)
(***************************************************************************)
Abs(x) == IF x < 0 THEN -x ELSE x

\* f with key k removed
Without(f, ks) == [k \in DOMAIN f \ ks |-> f[k]]

\* f with key k bound to v (k may be new)
With(f, k, v) == [x \in DOMAIN f \cup {k} |-> IF x = k THEN v ELSE f[x]]

NoDoc == [id |-> 0, participants |-> <<>>, totalPosts |-> 0]

IdleReq ==
    [op |-> "idle", pc |-> "idle", user |-> "u1", loc |-> 0, mid |-> 0,
     doc |-> NoDoc, row |-> 0, mood |-> "calm", intensity |-> 2,
     summary |-> <<>>, seen |-> {}, status |-> "none", result |-> 0, conn |-> "c1"]

\* an event as a connection receives it: its name, the participant count or
\* message id it carries, and the messages of a chat history
NoEvent == [name |-> "none", count |-> 0, msgs |-> <<>>]

Event(name, count) == [name |-> name, count |-> count, msgs |-> <<>>]

\* a connection that has not authenticated and is in no room.  userId and
\* currentMoment belong to socket/handlers.js; session (the anonymousId of
\* socket.request.session), anonymousId and currentMomentId to
\* sockets/chatHandler.js.  last is the latest event the client received,
\* inbox the ids of the chat messages it was sent, in the order of arrival,
\* and failed tells whether the latest handler run for the connection ended
\* in an error path (a failed check or its catch block).
NoSocket ==
    [userId |-> "none", currentMoment |-> 0, rooms |-> {},
     session |-> "none", anonymousId |-> "none", currentMomentId |-> 0,
     last |-> NoEvent, inbox |-> <<>>, failed |-> FALSE]

\* socket.emit / socket.to(room).emit / io.to(room).emit: every connection
\* of cs receives ev
Emit(ss, cs, ev) == [c \in Conns |-> IF c \in cs THEN [ss[c] EXCEPT !.last = ev] ELSE ss[c]]

\* socket.emit('error', { message }): the handler of connection c gives up
Fail(ss, c) == [Emit(ss, {c}, Event("error", 0)) EXCEPT ![c].failed = TRUE]

\* catch (error) { console.error(...) }: the handler of c gives up silently
Swallow(ss, c) == [ss EXCEPT ![c].failed = TRUE]

\* the handler of connection c runs to its end
Done(ss, c) == [ss EXCEPT ![c].failed = FALSE]

\* an event that arrives without its payload: destructuring it throws
NoPayload == 0

\* the connections bound to the room of moment m
InRoom(ss, m) == {c \in Conns : m \in ss[c].rooms}

\* at: when the run started; t: its cut-off; ids: the documents it works on
IdleSweep == [pc |-> "idle", at |-> 0, t |-> 0, ids |-> {}]

Busy(r) == req[r].pc /= "idle"

\* a new request on slot r: the previous response is discarded
Begin(r, op, pc, u) == [IdleReq EXCEPT !.op = op, !.pc = pc, !.user = u]

\* the handler of slot r answers
Respond(r, status, result) ==
    [req EXCEPT ![r] = IdleReq]

\* the handler of slot r answers and the client keeps the answer: its status
\* and the id it names stay readable until the slot's next request
Report(r, status, result) ==
    [req EXCEPT ![r] = [IdleReq EXCEPT !.status = status, !.result = result]]

\* the answer of slot r, kept by the client or discarded
Answer(r, status, result, keep) ==
    IF keep THEN Report(r, status, result) ELSE Respond(r, status, result)

\* the first answer of a handler that stops at its checks
Reject(r, start, status) ==
    [req EXCEPT ![r] = IdleReq]

(***************************************************************************)
(* Documents.                                                              *)
(***************************************************************************)
EmptySummaryB == [totalVotes |-> 0, moods |-> <<>>, dominantMoods |-> <<>>]

\* a Moment of the userId back end, as POST /api/moments constructs it
NewMomentB(id, loc, u, t) ==
    [id |-> id, loc |-> loc, createdAt |-> t, end |-> t + WindowHours,
     isActive |-> TRUE, isArchived |-> FALSE,
     participants |-> <<[userId |-> u, lastActive |-> t]>>,
     moodSummary |-> EmptySummaryB, totalPosts |-> 0, postRefs |-> <<>>]

\* the fields of a loaded document that its handler reads later
Loaded(doc) ==
    [id |-> doc.id,
     participants |-> [i \in DOMAIN doc.participants |-> [userId |-> doc.participants[i].userId]],
     totalPosts |-> doc.totalPosts]

HasParticipant(doc, u) == \E i \in DOMAIN doc.participants : doc.participants[i].userId = u

\* participant.lastActive = new Date(); moment.save()
Touch(ps, u, t) ==
    [i \in DOMAIN ps |-> IF ps[i].userId = u THEN [ps[i] EXCEPT !.lastActive = t] ELSE ps[i]]

\* Moment.addParticipant of the userId back end: an existing participant is
\* only refreshed, a new one is appended
AddParticipantB(stored, doc, u, t) ==
    IF HasParticipant(doc, u)
    THEN Touch(stored, u, t)
    ELSE Append(stored, [userId |-> u, lastActive |-> t])

(***************************************************************************)
(* Mood.getMoodSummary: $group by mood, $sort by count descending, then    *)
(* the top three with rounded percentages.  The order of groups with equal *)
(* counts is not fixed by the pipeline, so every order is a result.        *)
(***************************************************************************)
RowsOf(rows, m) == {i \in DOMAIN rows : rows[i].momentId = m}

GroupRows(rows, m, mood) == {i \in RowsOf(rows, m) : rows[i].mood = mood}

GroupKeys(rows, m) == {rows[i].mood : i \in RowsOf(rows, m)}

RECURSIVE SumIntensity(_, _)
SumIntensity(rows, ids) ==
    IF ids = {} THEN 0
    ELSE LET i == CHOOSE x \in ids : TRUE
         IN  rows[i].intensity + SumIntensity(rows, ids \ {i})

\* Math.ceil(x) for x = n / d >= 0
RoundDivUp(n, d) == (n + d - 1) \div d

\* Math.round(x) for x = n / d >= 0
RoundDiv(n, d) == (2 * n + d) \div (2 * d)

\* the percentage cut off instead of rounded
PercentageFloor(count, totalVotes) ==
    IF totalVotes > 0 THEN (count * 100) \div totalVotes ELSE 0

Percentage(count, totalVotes) ==
    IF totalVotes > 0 THEN RoundDiv(count * 100, totalVotes) ELSE 0

\* Math.round(avg * 10) / 10, kept in tenths
AvgIntensity(rows, ids) == RoundDiv(SumIntensity(rows, ids) * 10, Cardinality(ids))

\* the orders { $sort: { count: -1 } } can produce
SortedGroups(rows, m) ==
    LET keys == GroupKeys(rows, m)
        n == Cardinality(keys)
        cnt(k) == Cardinality(GroupRows(rows, m, k))
    IN  {s \in [1..n -> keys] :
            /\ \A i, j \in 1..n : i /= j => s[i] /= s[j]
            /\ \A i \in 1..n : i < n => cnt(s[i]) >= cnt(s[i + 1])}

Top3(s) == SubSeq(s, 1, IF Len(s) < 3 THEN Len(s) ELSE 3)

SummaryOf(rows, m, results) ==
    LET totalVotes == Cardinality(RowsOf(rows, m))
        top == Top3(results)
    IN  [totalVotes |-> totalVotes,
         moods |-> [k \in GroupKeys(rows, m) |-> Cardinality(GroupRows(rows, m, k))],
         dominantMoods |->
            [i \in DOMAIN top |->
                [mood |-> top[i],
                 count |-> Cardinality(GroupRows(rows, m, top[i])),
                 percentage |-> Percentage(Cardinality(GroupRows(rows, m, top[i])), totalVotes),
                 avgIntensity |-> AvgIntensity(rows, GroupRows(rows, m, top[i]))]]]

getMoodSummary(rows, m) == {SummaryOf(rows, m, s) : s \in SortedGroups(rows, m)}

(***************************************************************************)
(* Initial state: empty collections, no handler running.                   *)
(***************************************************************************)
Init ==
    /\ now = 0
    /\ moments = <<>>
    /\ posts = <<>>
    /\ moods = <<>>
    /\ messages = <<>>
    /\ nextId = [moment |-> 1, post |-> 1, mood |-> 1, message |-> 1]
    /\ req = [r \in Reqs |-> IdleReq]
    /\ sweep = IdleSweep
    /\ sockets = [c \in Conns |-> NoSocket]

\* time passes
Tick(times) ==
    /\ \E t \in times : t > now /\ now' = t
    /\ UNCHANGED <<moments, posts, moods, messages, nextId, req, sweep, sockets>>

TickB == Tick(TimesB)

\* handlers that may still insert a Moment
Creating == {r \in Reqs : req[r].op = "createOrJoin" /\ Busy(r) /\ req[r].doc.id = 0}

(***************************************************************************)
(* userId back end: POST /api/moments.                                     *)
(***************************************************************************)
\* the bounding box of Moment.findOne
InBoxB(doc, loc) ==
    /\ doc.isActive
    /\ doc.loc >= loc - LatDelta
    /\ doc.loc <= loc + LatDelta

\* await Moment.findOne({isActive: true, latitude/longitude in the box})
CreateOrJoinFindB(r) ==
    /\ ~Busy(r)
    /\ \E u \in Users, loc \in LocsB :
         LET matches == {m \in DOMAIN moments : InBoxB(moments[m], loc)}
         IN  \E doc \in IF matches = {} THEN {NoDoc} ELSE {Loaded(moments[m]) : m \in matches} :
             /\ doc.id = 0 => nextId.moment + Cardinality(Creating) <= MaxMomentsB
             /\ req' = [req EXCEPT ![r] =
                          [Begin(r, "createOrJoin", "save", u) EXCEPT
                              !.loc = loc, !.doc = doc, !.seen = DOMAIN moments]]
    /\ UNCHANGED <<now, moments, posts, moods, messages, nextId, sweep, sockets>>

\* the virtual participantCount of a moment with participant list ps
participantCount(ps) == Len(ps)

\* await existingMoment.addParticipant(userId)  or  await moment.save();
\* io.to(room).emit('participant_joined', { participantCount })
CreateOrJoinSaveB(r) ==
    /\ req[r].op = "createOrJoin" /\ req[r].pc = "save"
    /\ LET doc == req[r].doc
           u == req[r].user
       IN  IF doc.id /= 0
           THEN IF doc.id \in DOMAIN moments
                THEN /\ moments' = [moments EXCEPT ![doc.id].participants =
                                        AddParticipantB(@, doc, u, now)]
                     /\ sockets' = Emit(sockets, InRoom(sockets, doc.id),
                                        Event("participant_joined",
                                              participantCount(
                                                  AddParticipantB(doc.participants, doc, u, now))))
                     /\ req' = Respond(r, "joined", doc.id)
                     /\ UNCHANGED nextId
                ELSE /\ req' = Respond(r, "error", 0)
                     /\ UNCHANGED <<moments, nextId, sockets>>
           ELSE /\ moments' = With(moments, nextId.moment,
                                   NewMomentB(nextId.moment, req[r].loc, u, now))
                /\ sockets' = Emit(sockets, InRoom(sockets, nextId.moment),
                                   Event("participant_joined", 1))
                /\ nextId' = [nextId EXCEPT !.moment = @ + 1]
                /\ req' = Respond(r, "created", nextId.moment)
    /\ UNCHANGED <<now, posts, moods, messages, sweep>>

(***************************************************************************)
(* userId back end: PUT /api/moments/:id/join and /leave.                  *)
(***************************************************************************)
\* const moment = await Moment.findById(id); 404; 400 when !moment.isActive
JoinFindB(r) ==
    /\ ~Busy(r)
    /\ \E u \in Users, m \in 1..nextId.moment :
         LET start == [Begin(r, "join", "add", u) EXCEPT !.mid = m]
         IN  IF m \notin DOMAIN moments THEN req' = Reject(r, start, "notFound")
             ELSE IF ~moments[m].isActive THEN req' = Reject(r, start, "inactive")
             ELSE req' = [req EXCEPT ![r] = [start EXCEPT !.doc = Loaded(moments[m])]]
    /\ UNCHANGED <<now, moments, posts, moods, messages, nextId, sweep, sockets>>

\* await moment.addParticipant(req.userId); emit participant_joined; 200
JoinAddB(r) ==
    /\ req[r].op = "join" /\ req[r].pc = "add"
    /\ IF req[r].mid \in DOMAIN moments
       THEN /\ moments' = [moments EXCEPT ![req[r].mid].participants =
                              AddParticipantB(@, req[r].doc, req[r].user, now)]
            /\ req' = Respond(r, "ok", req[r].mid)
       ELSE /\ req' = Respond(r, "error", 0)
            /\ UNCHANGED moments
    /\ UNCHANGED <<now, posts, moods, messages, nextId, sweep, sockets>>

\* const moment = await Moment.findById(id); 404
LeaveFindB(r) ==
    /\ ~Busy(r)
    /\ \E u \in Users, m \in 1..nextId.moment :
         LET start == [Begin(r, "leave", "remove", u) EXCEPT !.mid = m]
         IN  IF m \notin DOMAIN moments THEN req' = Reject(r, start, "notFound")
             ELSE req' = [req EXCEPT ![r] = [start EXCEPT !.doc = Loaded(moments[m])]]
    /\ UNCHANGED <<now, moments, posts, moods, messages, nextId, sweep, sockets>>

\* Moment.removeParticipant of the userId back end: the user's entry is removed
RemoveParticipantB(ps, u) == SelectSeq(ps, LAMBDA p : p.userId /= u)

\* no participant is ever counted
NeverOccupied(doc) == FALSE

\* moment.participants.length > 0 after removeParticipant
StillOccupied(doc) == Len(doc.participants) > 0

\* await moment.removeParticipant(req.userId); with participants left:
\* emit participant_left; 200
LeaveRemoveB(r) ==
    /\ req[r].op = "leave" /\ req[r].pc = "remove"
    /\ LET left == [req[r].doc EXCEPT !.participants = RemoveParticipantB(@, req[r].user)]
       IN  IF req[r].mid \in DOMAIN moments
           THEN /\ moments' = [moments EXCEPT ![req[r].mid].participants =
                                  RemoveParticipantB(@, req[r].user)]
                /\ req' = IF StillOccupied(left)
                          THEN Respond(r, "ok", req[r].mid)
                          ELSE [req EXCEPT ![r].pc = "deactivate"]
           ELSE /\ req' = Respond(r, "error", 0)
                /\ UNCHANGED moments
    /\ UNCHANGED <<now, posts, moods, messages, nextId, sweep, sockets>>

\* moment.isActive = true
MarkActive(doc) == [doc EXCEPT !.isActive = TRUE]

\* moment.isActive = false
MarkInactive(doc) == [doc EXCEPT !.isActive = FALSE]

\* moment.isActive = false; await moment.save(); emit participant_left; 200
LeaveDeactivateB(r) ==
    /\ req[r].op = "leave" /\ req[r].pc = "deactivate"
    /\ IF req[r].mid \in DOMAIN moments
       THEN /\ moments' = [moments EXCEPT ![req[r].mid] = MarkInactive(@)]
            /\ req' = Respond(r, "ok", req[r].mid)
       ELSE /\ req' = Respond(r, "error", 0)
            /\ UNCHANGED moments
    /\ UNCHANGED <<now, posts, moods, messages, nextId, sweep, sockets>>

(***************************************************************************)
(* userId back end: POST /api/posts.                                       *)
(***************************************************************************)
\* handlers that may still insert a Post
Posting == {r \in Reqs : req[r].op = "post" /\ req[r].pc = "savePost"}

\* const moment = await Moment.findById(momentId), then the three checks
PostFindB(r) ==
    /\ ~Busy(r)
    /\ \E u \in Users, m \in 1..nextId.moment :
         LET start == [Begin(r, "post", "savePost", u) EXCEPT !.mid = m]
         IN  IF m \notin DOMAIN moments
             THEN req' = Reject(r, start, "notFound")
             ELSE IF ~moments[m].isActive
             THEN req' = Reject(r, start, "inactive")
             ELSE IF ~HasParticipant(moments[m], u)
             THEN req' = Reject(r, start, "notParticipant")
             ELSE /\ nextId.post + Cardinality(Posting) <= MaxPosts
                  /\ req' = [req EXCEPT ![r] = [start EXCEPT !.doc = Loaded(moments[m])]]
    /\ UNCHANGED <<now, moments, posts, moods, messages, nextId, sweep, sockets>>

\* new Post({ momentId, userId, content, mood, type, imageUrl }); v is __v
NewPostB(id, m, u, t) ==
    [id |-> id, momentId |-> m, userId |-> u, createdAt |-> t, isVisible |-> TRUE,
     reactions |-> <<>>, v |-> 0]

\* await post.save()
PostSaveB(r) ==
    /\ req[r].op = "post" /\ req[r].pc = "savePost"
    /\ posts' = With(posts, nextId.post, NewPostB(nextId.post, req[r].mid, req[r].user, now))
    /\ nextId' = [nextId EXCEPT !.post = @ + 1]
    /\ req' = [req EXCEPT ![r].pc = "saveStats", ![r].result = nextId.post]
    /\ UNCHANGED <<now, moments, moods, messages, sweep, sockets>>

\* moment.stats.totalPosts += 1; await moment.save()
PostStatsB(r) ==
    /\ req[r].op = "post" /\ req[r].pc = "saveStats"
    /\ IF req[r].mid \in DOMAIN moments
       THEN /\ moments' = [moments EXCEPT ![req[r].mid].totalPosts = req[r].doc.totalPosts + 1]
            /\ req' = [req EXCEPT ![r].pc = "saveActive"]
       ELSE /\ req' = Respond(r, "error", req[r].result)
            /\ UNCHANGED moments
    /\ UNCHANGED <<now, posts, moods, messages, nextId, sweep, sockets>>

\* participant.lastActive = new Date(); await moment.save(); 201
PostActiveB(r) ==
    /\ req[r].op = "post" /\ req[r].pc = "saveActive"
    /\ IF req[r].mid \in DOMAIN moments
       THEN /\ moments' = [moments EXCEPT ![req[r].mid].participants = Touch(@, req[r].user, now)]
            /\ req' = Respond(r, "ok", req[r].result)
       ELSE /\ req' = Respond(r, "error", req[r].result)
            /\ UNCHANGED moments
    /\ UNCHANGED <<now, posts, moods, messages, nextId, sweep, sockets>>

(***************************************************************************)
(* userId back end: DELETE /api/posts/:id.                                 *)
(***************************************************************************)
\* const post = await Post.findById(id); 404 unless visible; 403 unless the author's
DeletePostFindB(r) ==
    /\ ~Busy(r)
    /\ \E u \in Users, p \in 1..nextId.post :
         LET start == [Begin(r, "deletePost", "hide", u) EXCEPT !.result = p]
         IN  IF p \notin DOMAIN posts \/ ~posts[p].isVisible
             THEN req' = Reject(r, start, "notFound")
             ELSE IF posts[p].userId /= u
             THEN req' = Reject(r, start, "forbidden")
             ELSE req' = [req EXCEPT ![r] = [start EXCEPT !.mid = posts[p].momentId]]
    /\ UNCHANGED <<now, moments, posts, moods, messages, nextId, sweep, sockets>>

\* post.isVisible = false; await post.save()
DeletePostHideB(r) ==
    /\ req[r].op = "deletePost" /\ req[r].pc = "hide"
    /\ IF req[r].result \in DOMAIN posts
       THEN /\ posts' = [posts EXCEPT ![req[r].result].isVisible = FALSE]
            /\ req' = [req EXCEPT ![r].pc = "findMoment"]
       ELSE /\ req' = Respond(r, "error", 0)
            /\ UNCHANGED posts
    /\ UNCHANGED <<now, moments, moods, messages, nextId, sweep, sockets>>

\* const moment = await Moment.findById(post.momentId); without it: 200
DeletePostFindMomentB(r) ==
    /\ req[r].op = "deletePost" /\ req[r].pc = "findMoment"
    /\ req' = IF req[r].mid \in DOMAIN moments
              THEN [req EXCEPT ![r].pc = "saveStats", ![r].doc = Loaded(moments[req[r].mid])]
              ELSE Respond(r, "ok", req[r].result)
    /\ UNCHANGED <<now, moments, posts, moods, messages, nextId, sweep, sockets>>

\* Math.max(0, n)
Max0(n) == IF n < 0 THEN 0 ELSE n

\* moment.stats.totalPosts = Math.max(0, totalPosts - 1); await moment.save(); 200
DeletePostStatsB(r) ==
    /\ req[r].op = "deletePost" /\ req[r].pc = "saveStats"
    /\ IF req[r].mid \in DOMAIN moments
       THEN /\ moments' = [moments EXCEPT ![req[r].mid].totalPosts =
                              Max0(req[r].doc.totalPosts - 1)]
            /\ req' = Respond(r, "ok", req[r].result)
       ELSE /\ req' = Respond(r, "error", 0)
            /\ UNCHANGED moments
    /\ UNCHANGED <<now, posts, moods, messages, nextId, sweep, sockets>>

(***************************************************************************)
(* userId back end: PUT and DELETE /api/posts/:id/react.  A save that      *)
(* $sets a whole array carries the document's version in its filter and    *)
(* increments it, so it fails when another such save came first.          *)
(***************************************************************************)
\* validReactions.includes(reactionType); Post.findById; 404
ReactFindPostB(r) ==
    /\ ~Busy(r)
    /\ \E u \in Users, type \in ReactionInputs, p \in 1..nextId.post :
         LET start == [Begin(r, "react", "findMoment", u) EXCEPT !.result = p, !.mood = type]
         IN  IF type \notin validReactions
             THEN req' = Reject(r, start, "invalid")
             ELSE IF p \notin DOMAIN posts \/ ~posts[p].isVisible
             THEN req' = Reject(r, start, "notFound")
             ELSE /\ posts[p].v < MaxSaves
                  /\ req' = [req EXCEPT ![r] =
                               [start EXCEPT !.mid = posts[p].momentId,
                                             !.summary = posts[p].reactions,
                                             !.row = posts[p].v]]
    /\ UNCHANGED <<now, moments, posts, moods, messages, nextId, sweep, sockets>>

\* const moment = await Moment.findById(post.momentId); 400; 403
ReactFindMomentB(r) ==
    /\ req[r].op = "react" /\ req[r].pc = "findMoment"
    /\ LET m == req[r].mid
       IN  req' = IF m \notin DOMAIN moments \/ ~moments[m].isActive
                  THEN Respond(r, "inactive", 0)
                  ELSE IF ~HasParticipant(moments[m], req[r].user)
                  THEN Respond(r, "notParticipant", 0)
                  ELSE [req EXCEPT ![r].pc = "saveReaction"]
    /\ UNCHANGED <<now, moments, posts, moods, messages, nextId, sweep, sockets>>

\* this.reactions.filter(r => r.userId !== userId)
removeReaction(reactions, u) == SelectSeq(reactions, LAMBDA x : x.userId /= u)

\* Post.addReaction: drop the user's reaction, then push the new one
addReaction(reactions, u, type) ==
    Append(removeReaction(reactions, u), [userId |-> u, type |-> type])

\* a save that does not look at the version
VersionIgnored(stored, v) == TRUE

\* the save's filter { _id, __v }
VersionMatches(stored, v) == stored.v = v

\* await post.addReaction(req.userId, reactionType); emit post_reaction; 200
ReactSaveB(r) ==
    /\ req[r].op = "react" /\ req[r].pc = "saveReaction"
    /\ LET p == req[r].result
       IN  IF p \in DOMAIN posts /\ VersionMatches(posts[p], req[r].row)
           THEN /\ posts' = [posts EXCEPT
                                ![p].reactions = addReaction(req[r].summary, req[r].user,
                                                             req[r].mood),
                                ![p].v = @ + 1]
                /\ req' = Respond(r, "ok", req[r].result)
           ELSE /\ req' = Respond(r, "error", 0)
                /\ UNCHANGED posts
    /\ UNCHANGED <<now, moments, moods, messages, nextId, sweep, sockets>>

\* const post = await Post.findById(id); 404
UnreactFindB(r) ==
    /\ ~Busy(r)
    /\ \E u \in Users, p \in 1..nextId.post :
         LET start == [Begin(r, "unreact", "saveReaction", u) EXCEPT !.result = p]
         IN  IF p \notin DOMAIN posts \/ ~posts[p].isVisible
             THEN req' = Reject(r, start, "notFound")
             ELSE /\ posts[p].v < MaxSaves
                  /\ req' = [req EXCEPT ![r] =
                               [start EXCEPT !.mid = posts[p].momentId,
                                             !.summary = posts[p].reactions,
                                             !.row = posts[p].v]]
    /\ UNCHANGED <<now, moments, posts, moods, messages, nextId, sweep, sockets>>

\* await post.removeReaction(req.userId); emit post_reaction_removed; 200
\* (an array left as it was is not written)
UnreactSaveB(r) ==
    /\ req[r].op = "unreact" /\ req[r].pc = "saveReaction"
    /\ LET p == req[r].result
           left == removeReaction(req[r].summary, req[r].user)
       IN  IF p \in DOMAIN posts /\ left /= req[r].summary
                                 /\ VersionMatches(posts[p], req[r].row)
           THEN /\ posts' = [posts EXCEPT ![p].reactions = left, ![p].v = @ + 1]
                /\ req' = Respond(r, "ok", req[r].result)
           ELSE /\ req' = Respond(r, IF left = req[r].summary THEN "ok" ELSE "error", 0)
                /\ UNCHANGED posts
    /\ UNCHANGED <<now, moments, moods, messages, nextId, sweep, sockets>>

(***************************************************************************)
(* userId back end: POST /api/moods/vote.                                  *)
(***************************************************************************)
\* handlers that may still insert a Mood
Voting == {r \in Reqs : req[r].op = "vote" /\ req[r].pc \in {"findVote", "saveVote"}}

\* const moment = await Moment.findById(momentId), then the three checks
VoteFindMomentB(r) ==
    /\ ~Busy(r)
    /\ nextId.mood + Cardinality(Voting) <= MaxMoodRows
    /\ \E u \in Users, m \in 1..nextId.moment, v \in VoteInputs :
         LET start == [Begin(r, "vote", "findVote", u) EXCEPT
                          !.mid = m, !.mood = v.mood, !.intensity = v.intensity]
         IN  IF m \notin DOMAIN moments THEN req' = Reject(r, start, "notFound")
             ELSE IF ~moments[m].isActive THEN req' = Reject(r, start, "inactive")
             ELSE IF ~HasParticipant(moments[m], u) THEN req' = Reject(r, start, "notParticipant")
             ELSE req' = [req EXCEPT ![r] = [start EXCEPT !.doc = Loaded(moments[m])]]
    /\ UNCHANGED <<now, moments, posts, moods, messages, nextId, sweep, sockets>>

\* Mood.updateMoodVote: const existingMood = await this.findOne({momentId, userId})
VoteFindVoteB(r) ==
    /\ req[r].op = "vote" /\ req[r].pc = "findVote"
    /\ LET found == {i \in DOMAIN moods :
                        moods[i].momentId = req[r].mid /\ moods[i].userId = req[r].user}
       IN  \E row \in IF found = {} THEN {0} ELSE found :
             req' = [req EXCEPT ![r].pc = "saveVote", ![r].row = row]
    /\ UNCHANGED <<now, moments, posts, moods, messages, nextId, sweep, sockets>>

\* the collection without its unique index
UniqueVoteNoIndex(rows, m, u) == TRUE

\* the unique index { momentId: 1, userId: 1 }
UniqueVote(rows, m, u) == \A i \in DOMAIN rows : ~(rows[i].momentId = m /\ rows[i].userId = u)

\* Mood.updateMoodVote: await existingMood.save()  or  await this.create(...)
VoteSaveVoteB(r) ==
    /\ req[r].op = "vote" /\ req[r].pc = "saveVote"
    /\ LET m == req[r].mid
           u == req[r].user
           row == req[r].row
       IN  IF row /= 0
           THEN IF row \in DOMAIN moods
                THEN /\ moods' = [moods EXCEPT ![row].mood = req[r].mood,
                                               ![row].intensity = req[r].intensity,
                                               ![row].createdAt = now]
                     /\ req' = [req EXCEPT ![r].pc = "summary", ![r].status = "updated"]
                     /\ UNCHANGED nextId
                ELSE /\ req' = Respond(r, "error", 0)
                     /\ UNCHANGED <<moods, nextId>>
           ELSE IF UniqueVote(moods, m, u)
                THEN /\ moods' = With(moods, nextId.mood,
                                      [id |-> nextId.mood, momentId |-> m, userId |-> u,
                                       mood |-> req[r].mood, intensity |-> req[r].intensity,
                                       createdAt |-> now])
                     /\ nextId' = [nextId EXCEPT !.mood = @ + 1]
                     /\ req' = [req EXCEPT ![r].pc = "summary", ![r].row = nextId.mood,
                                            ![r].status = "inserted"]
                ELSE /\ req' = Respond(r, "error", 0)
                     /\ UNCHANGED <<moods, nextId>>
    /\ UNCHANGED <<now, moments, posts, messages, sweep, sockets>>

\* const moodSummary = await Mood.getMoodSummary(momentId)
VoteSummaryB(r) ==
    /\ req[r].op \in {"vote", "unvote"} /\ req[r].pc = "summary"
    /\ \E s \in getMoodSummary(moods, req[r].mid) :
         req' = [req EXCEPT ![r].pc = "saveSummary", ![r].summary = s]
    /\ UNCHANGED <<now, moments, posts, moods, messages, nextId, sweep, sockets>>

\* moment.moodSummary = moodSummary; await moment.save()
VoteSaveSummaryB(r) ==
    /\ req[r].op \in {"vote", "unvote"} /\ req[r].pc = "saveSummary"
    /\ IF req[r].mid \in DOMAIN moments
       THEN /\ moments' = [moments EXCEPT ![req[r].mid].moodSummary = req[r].summary]
            /\ req' = IF req[r].op = "vote"
                      THEN [req EXCEPT ![r].pc = "saveActive"]
                      ELSE Respond(r, "ok", 0)
       ELSE /\ req' = Respond(r, "error", 0)
            /\ UNCHANGED moments
    /\ UNCHANGED <<now, posts, moods, messages, nextId, sweep, sockets>>

\* participant.lastActive = new Date(); await moment.save(); 201
VoteActiveB(r) ==
    /\ req[r].op = "vote" /\ req[r].pc = "saveActive"
    /\ IF req[r].mid \in DOMAIN moments
       THEN /\ moments' = [moments EXCEPT ![req[r].mid].participants = Touch(@, req[r].user, now)]
            /\ req' = Respond(r, "ok", req[r].row)
       ELSE /\ req' = Respond(r, "error", 0)
            /\ UNCHANGED moments
    /\ UNCHANGED <<now, posts, moods, messages, nextId, sweep, sockets>>

(***************************************************************************)
(* userId back end: DELETE /api/moods/vote/:momentId.                      *)
(***************************************************************************)
\* const moment = await Moment.findById(momentId)
UnvoteFindB(r) ==
    /\ ~Busy(r)
    /\ \E u \in Users, m \in 1..nextId.moment :
         LET start == [Begin(r, "unvote", "delete", u) EXCEPT !.mid = m]
         IN  IF m \notin DOMAIN moments THEN req' = Reject(r, start, "notFound")
             ELSE req' = [req EXCEPT ![r] = [start EXCEPT !.doc = Loaded(moments[m])]]
    /\ UNCHANGED <<now, moments, posts, moods, messages, nextId, sweep, sockets>>

\* const deletedMood = await Mood.findOneAndDelete({momentId, userId})
UnvoteDeleteB(r) ==
    /\ req[r].op = "unvote" /\ req[r].pc = "delete"
    /\ LET found == {i \in DOMAIN moods :
                        moods[i].momentId = req[r].mid /\ moods[i].userId = req[r].user}
       IN  IF found = {}
           THEN /\ req' = Respond(r, "notFound", 0)
                /\ UNCHANGED <<moods>>
           ELSE \E row \in found :
                  /\ moods' = Without(moods, {row})
                  /\ req' = [req EXCEPT ![r].pc = "summary", ![r].row = row]
    /\ UNCHANGED <<now, moments, posts, messages, nextId, sweep, sockets>>

(***************************************************************************)
(* userId back end: DELETE /api/moments/:id.                               *)
(***************************************************************************)
\* const moment = await Moment.findById(id), then the three checks
DeleteFindB(r) ==
    /\ ~Busy(r)
    /\ \E u \in Users, m \in 1..nextId.moment :
         LET start == [Begin(r, "delete", "deleteMoment", u) EXCEPT !.mid = m]
         IN  IF m \notin DOMAIN moments THEN req' = Reject(r, start, "notFound")
             ELSE IF ~HasParticipant(moments[m], u) THEN req' = Reject(r, start, "notParticipant")
             ELSE IF Len(moments[m].participants) > 1 THEN req' = Reject(r, start, "hasOthers")
             ELSE req' = [req EXCEPT ![r] = [start EXCEPT !.doc = Loaded(moments[m])]]
    /\ UNCHANGED <<now, moments, posts, moods, messages, nextId, sweep, sockets>>

\* await Moment.findByIdAndDelete(id)
DeleteMomentB(r) ==
    /\ req[r].op = "delete" /\ req[r].pc = "deleteMoment"
    /\ moments' = Without(moments, {req[r].mid})
    /\ req' = [req EXCEPT ![r].pc = "deletePosts"]
    /\ UNCHANGED <<now, posts, moods, messages, nextId, sweep, sockets>>

\* await Post.deleteMany({ momentId })
DeletePostsB(r) ==
    /\ req[r].op = "delete" /\ req[r].pc = "deletePosts"
    /\ posts' = Without(posts, {p \in DOMAIN posts : posts[p].momentId = req[r].mid})
    /\ req' = [req EXCEPT ![r].pc = "deleteMoods"]
    /\ UNCHANGED <<now, moments, moods, messages, nextId, sweep, sockets>>

\* await Mood.deleteMany({ momentId }); 200
DeleteMoodsB(r) ==
    /\ req[r].op = "delete" /\ req[r].pc = "deleteMoods"
    /\ moods' = Without(moods, RowsOf(moods, req[r].mid))
    /\ req' = Respond(r, "ok", req[r].mid)
    /\ UNCHANGED <<now, moments, posts, messages, nextId, sweep, sockets>>

(***************************************************************************)
(* userId back end: socket event send_message.                             *)
(***************************************************************************)
\* const moment = await Moment.findById(momentId), then the checks
SendFindB(r) ==
    /\ ~Busy(r)
    /\ \E u \in Users, m \in 1..nextId.moment :
         LET start == [Begin(r, "send", "saveMessage", u) EXCEPT !.mid = m]
         IN  IF m \notin DOMAIN moments \/ ~moments[m].isActive
             THEN req' = Reject(r, start, "inactive")
             ELSE IF ~HasParticipant(moments[m], u) THEN req' = Reject(r, start, "notParticipant")
             ELSE /\ nextId.message
                       + Cardinality({q \in Reqs : req[q].op = "send" /\ Busy(q)}) <= MaxMessages
                  /\ req' = [req EXCEPT ![r] = [start EXCEPT !.doc = Loaded(moments[m])]]
    /\ UNCHANGED <<now, moments, posts, moods, messages, nextId, sweep, sockets>>

\* await chatMessage.save(); io.to(room).emit('new_message', ...)
SendSaveB(r) ==
    /\ req[r].op = "send" /\ req[r].pc = "saveMessage"
    /\ messages' = With(messages, nextId.message,
                        [id |-> nextId.message, momentId |-> req[r].mid,
                         userId |-> req[r].user, createdAt |-> now,
                         expiresAt |-> now + WindowHours, isVisible |-> TRUE])
    /\ nextId' = [nextId EXCEPT !.message = @ + 1]
    /\ req' = Respond(r, "ok", nextId.message)
    /\ UNCHANGED <<now, moments, posts, moods, sweep, sockets>>

(***************************************************************************)
(* userId back end: socket events authenticate and join_moment.            *)
(***************************************************************************)
\* socket.userId = userId; emit authenticated
AuthenticateB(c) ==
    /\ \E u \in Users :
         /\ sockets[c].userId /= u
         /\ sockets' = [sockets EXCEPT ![c].userId = u]
    /\ UNCHANGED <<now, moments, posts, moods, messages, nextId, req, sweep>>

\* authentication check; const moment = await Moment.findById(momentId);
\* socket.join(room); socket.currentMoment = momentId; a non-participant
\* goes straight on to emit user_joined_chat
SocketJoinFindB(r) ==
    /\ ~Busy(r)
    /\ \E c \in Conns, m \in {NoPayload} \cup 1..nextId.moment :
         LET u == sockets[c].userId
             start == [Begin(r, "joinRoom", "touch", u) EXCEPT !.mid = m, !.conn = c]
             bound == [sockets EXCEPT ![c].rooms = @ \cup {m}, ![c].currentMoment = m]
         IN  IF m = NoPayload \/ u = "none" \/ m \notin DOMAIN moments
             THEN /\ req' = Reject(r, start, "error")
                  /\ sockets' = Fail(sockets, c)
             ELSE IF HasParticipant(moments[m], u)
             THEN /\ sockets' = bound
                  /\ req' = [req EXCEPT ![r] = [start EXCEPT !.doc = Loaded(moments[m])]]
             ELSE /\ sockets' = Emit(bound, InRoom(bound, m) \ {c}, Event("user_joined_chat", m))
                  /\ req' = [req EXCEPT ![r] =
                               [start EXCEPT !.doc = Loaded(moments[m]), !.pc = "history"]]
    /\ UNCHANGED <<now, moments, posts, moods, messages, nextId, sweep>>

\* participant.lastActive = new Date(); await moment.save(); emit user_joined_chat
SocketJoinTouchB(r) ==
    /\ req[r].op = "joinRoom" /\ req[r].pc = "touch"
    /\ IF req[r].mid \in DOMAIN moments
       THEN /\ moments' = [moments EXCEPT ![req[r].mid].participants = Touch(@, req[r].user, now)]
            /\ sockets' = Emit(sockets, InRoom(sockets, req[r].mid) \ {req[r].conn},
                               Event("user_joined_chat", req[r].mid))
            /\ req' = [req EXCEPT ![r].pc = "history"]
       ELSE /\ req' = Respond(r, "error", 0)
            /\ sockets' = Fail(sockets, req[r].conn)
            /\ UNCHANGED moments
    /\ UNCHANGED <<now, posts, moods, messages, nextId, sweep>>

\* the messages a find with sort createdAt -1 may return: newest first,
\* equal timestamps in either order
RECURSIVE Descending(_, _)
Descending(ids, docs) ==
    IF ids = {} THEN {<<>>}
    ELSE UNION {{<<i>> \o rest : rest \in Descending(ids \ {i}, docs)} :
                  i \in {j \in ids : \A k \in ids : docs[k].createdAt <= docs[j].createdAt}}

\* .limit(limit)
Limit(s, limit) == SubSeq(s, 1, IF Len(s) < limit THEN Len(s) ELSE limit)

\* the list as the query returned it, newest first
Unreversed(s) == s

\* recentMessages.reverse()
Reverse(s) == [i \in 1..Len(s) |-> s[Len(s) + 1 - i]]

\* a query that finds no message
NoRecentMessages(m, limit) == {<<>>}

\* ChatMessage.getRecentMessages: the visible messages of the moment,
\* newest first, at most limit of them
getRecentMessages(m, limit) ==
    {Limit(s, limit) :
        s \in Descending({i \in DOMAIN messages :
                             messages[i].momentId = m /\ messages[i].isVisible}, messages)}

\* const recentMessages = await ChatMessage.getRecentMessages(momentId, 20)
SocketJoinHistoryB(r) ==
    /\ req[r].op = "joinRoom" /\ req[r].pc = "history"
    /\ \E recent \in getRecentMessages(req[r].mid, HistoryLimit) :
         req' = [req EXCEPT ![r].pc = "emitHistory", ![r].summary = Reverse(recent),
                            ![r].seen = {recent[i] : i \in DOMAIN recent}]
    /\ UNCHANGED <<now, moments, posts, moods, messages, nextId, sweep, sockets>>

\* socket.emit('chat_history', { messages: recentMessages.reverse(), momentId })
SocketJoinEmitB(r) ==
    /\ req[r].op = "joinRoom" /\ req[r].pc = "emitHistory"
    /\ sockets' = Done(Emit(sockets, {req[r].conn},
                            [name |-> "chat_history", count |-> req[r].mid,
                             msgs |-> req[r].summary]),
                       req[r].conn)
    /\ req' = Respond(r, "ok", req[r].mid)
    /\ UNCHANGED <<now, moments, posts, moods, messages, nextId, sweep>>

\* leave_moment: if (socket.currentMoment === momentId) leave the room,
\* clear currentMoment, emit user_left_chat; its catch block only logs
SocketLeaveB(c) ==
    /\ \A r \in Reqs : Busy(r) => req[r].conn /= c
    /\ \E m \in {NoPayload} \cup 1..nextId.moment :
         LET left == [sockets EXCEPT ![c].rooms = @ \ {m}, ![c].currentMoment = 0]
         IN  sockets' = IF m = NoPayload THEN Swallow(sockets, c)
                        ELSE IF sockets[c].currentMoment /= m THEN Done(sockets, c)
                        ELSE Done(Emit(left, InRoom(left, m), Event("user_left_chat", m)), c)
    /\ UNCHANGED <<now, moments, posts, moods, messages, nextId, req, sweep>>

\* the transport closes: Socket.IO takes the connection out of its rooms,
\* the disconnect handler emits user_left_chat
DisconnectB(c) ==
    /\ sockets[c].userId /= "none"
    /\ \A r \in Reqs : Busy(r) => req[r].conn /= c
    /\ LET closed == [sockets EXCEPT ![c] = NoSocket]
       IN  sockets' = IF sockets[c].currentMoment /= 0
                      THEN Emit(closed, InRoom(closed, sockets[c].currentMoment),
                                Event("user_left_chat", sockets[c].currentMoment))
                      ELSE closed
    /\ UNCHANGED <<now, moments, posts, moods, messages, nextId, req, sweep>>

\* a message text by what the checks look at: its length and its length
\* once trimmed
Texts(max) ==
    {[len |-> 0, trimmed |-> 0], [len |-> 2, trimmed |-> 0], [len |-> 2, trimmed |-> 2],
     [len |-> max + 1, trimmed |-> max + 1]}

\* handlers of send_message that may still insert a ChatMessage
Sending == {r \in Reqs : req[r].op = "sendMessage" /\ req[r].pc = "saveMessage"}

\* send_message up to its save: the checks, await Moment.findById(momentId),
\* new ChatMessage (createdAt defaults to Date.now)
SendMessageFindB(r) ==
    /\ ~Busy(r)
    /\ \E c \in Conns, m \in {NoPayload} \cup 1..nextId.moment, text \in Texts(MaxMessageLenB) :
         LET u == sockets[c].userId
             start == [Begin(r, "sendMessage", "saveMessage", u)
                          EXCEPT !.mid = m, !.conn = c, !.row = now]
         IN  IF \/ m = NoPayload
                \/ u = "none"
                \/ text.trimmed = 0
                \/ text.len > MaxMessageLenB
                \/ m \notin DOMAIN moments
                \/ ~moments[m].isActive
                \/ ~HasParticipant(moments[m], u)
             THEN /\ req' = Reject(r, start, "error")
                  /\ sockets' = Fail(sockets, c)
             ELSE /\ nextId.message + Cardinality(Sending) <= MaxChat
                  /\ req' = [req EXCEPT ![r] = start]
                  /\ UNCHANGED sockets
    /\ UNCHANGED <<now, moments, posts, moods, messages, nextId, sweep>>

\* await chatMessage.save(): the store takes the insert
SendMessageSaveB(r) ==
    /\ req[r].op = "sendMessage" /\ req[r].pc = "saveMessage"
    /\ messages' = With(messages, nextId.message,
                        [id |-> nextId.message, momentId |-> req[r].mid,
                         userId |-> req[r].user, createdAt |-> req[r].row,
                         expiresAt |-> req[r].row + WindowHours, isVisible |-> TRUE])
    /\ nextId' = [nextId EXCEPT !.message = @ + 1]
    /\ req' = [req EXCEPT ![r].pc = "emit", ![r].result = nextId.message]
    /\ UNCHANGED <<now, moments, posts, moods, sweep, sockets>>

\* the save has resolved: io.to(room).emit('new_message', ...)
SendMessageEmitB(r) ==
    /\ req[r].op = "sendMessage" /\ req[r].pc = "emit"
    /\ sockets' = Done([x \in Conns |->
                          IF x \in InRoom(sockets, req[r].mid)
                          THEN [sockets[x] EXCEPT !.last = Event("new_message", req[r].result),
                                                  !.inbox = Append(@, req[r].result)]
                          ELSE sockets[x]],
                       req[r].conn)
    /\ req' = Respond(r, "ok", req[r].result)
    /\ UNCHANGED <<now, moments, posts, moods, messages, nextId, sweep>>

(***************************************************************************)
(* userId back end: the hourly job cleanupExpiredData.                     *)
(***************************************************************************)
Older(coll, t) == {i \in DOMAIN coll : coll[i].createdAt < t}

\* an update that flips isActive on every moment older than t
ToggleMomentsB(ms, t) ==
    [m \in DOMAIN ms |->
        IF ms[m].createdAt < t THEN [ms[m] EXCEPT !.isActive = ~@] ELSE ms[m]]

\* Moment.updateMany({createdAt < expiryTime, isActive: true}, {isActive: false})
ExpireMomentsB(ms, t) ==
    [m \in DOMAIN ms |->
        IF ms[m].createdAt < t /\ ms[m].isActive
        THEN [ms[m] EXCEPT !.isActive = FALSE]
        ELSE ms[m]]

\* Post.updateMany({createdAt < expiryTime, isVisible: true}, {isVisible: false})
HidePostsB(ps, t) ==
    [p \in DOMAIN ps |->
        IF ps[p].createdAt < t /\ ps[p].isVisible
        THEN [ps[p] EXCEPT !.isVisible = FALSE]
        ELSE ps[p]]

\* the four collections as one value
Store == [moments |-> moments, posts |-> posts, moods |-> moods, messages |-> messages]

\* cleanupExpiredData run on store s without interruption at time t
cleanupExpiredData(s, t) ==
    [moments |-> Without(ExpireMomentsB(s.moments, t - WindowHours),
                         Older(s.moments, t - HardDeleteHours)),
     posts |-> Without(HidePostsB(s.posts, t - WindowHours),
                       Older(s.posts, t - HardDeleteHours)),
     moods |-> Without(s.moods, Older(s.moods, t - WindowHours)),
     messages |-> Without(s.messages, Older(s.messages, t - WindowHours))]

\* expiryTime = now - 24h; await Moment.updateMany({createdAt < expiryTime, isActive}, ...)
SweepExpireMomentsB ==
    /\ sweep.pc = "idle"
    /\ LET t == now - WindowHours
       IN  /\ moments' = ExpireMomentsB(moments, t)
           /\ sweep' = [pc |-> "hidePosts", at |-> now, t |-> t, ids |-> {}]
    /\ UNCHANGED <<now, posts, moods, messages, nextId, req, sockets>>

\* await Post.updateMany({createdAt < expiryTime, isVisible}, {isVisible: false})
SweepHidePostsB ==
    /\ sweep.pc = "hidePosts"
    /\ posts' = HidePostsB(posts, sweep.t)
    /\ sweep' = [sweep EXCEPT !.pc = "deleteMoods"]
    /\ UNCHANGED <<now, moments, moods, messages, nextId, req, sockets>>

\* await Mood.deleteMany({createdAt < expiryTime})
SweepDeleteMoodsB ==
    /\ sweep.pc = "deleteMoods"
    /\ moods' = Without(moods, Older(moods, sweep.t))
    /\ sweep' = [sweep EXCEPT !.pc = "deleteMessages"]
    /\ UNCHANGED <<now, moments, posts, messages, nextId, req, sockets>>

\* await ChatMessage.deleteMany({createdAt < expiryTime})
SweepDeleteMessagesB ==
    /\ sweep.pc = "deleteMessages"
    /\ messages' = Without(messages, Older(messages, sweep.t))
    /\ sweep' = [sweep EXCEPT !.pc = "hardMoments"]
    /\ UNCHANGED <<now, moments, posts, moods, nextId, req, sockets>>

\* hardDeleteTime = now - 7d; await Moment.deleteMany({createdAt < hardDeleteTime})
SweepHardMomentsB ==
    /\ sweep.pc = "hardMoments"
    /\ moments' = Without(moments, Older(moments, now - HardDeleteHours))
    /\ sweep' = [sweep EXCEPT !.pc = "hardPosts", !.t = now - HardDeleteHours,
                              !.ids = Older(moments, now - HardDeleteHours)]
    /\ UNCHANGED <<now, posts, moods, messages, nextId, req, sockets>>

\* await Post.deleteMany({createdAt < hardDeleteTime}); the job returns
SweepHardPostsB ==
    /\ sweep.pc = "hardPosts"
    /\ posts' = Without(posts, Older(posts, sweep.t))
    /\ sweep' = IdleSweep
    /\ UNCHANGED <<now, moments, moods, messages, nextId, req, sockets>>

(***************************************************************************)
(* userId back end: the server schedules the cleanup job.                  *)
(***************************************************************************)
\* module.exports of jobs/cleanup.js: an object with three functions
JobsCleanupExports ==
    [kind |-> "object",
     members |-> {"cleanupExpiredData", "cleanupInactiveParticipants", "getCleanupStats"}]

\* const cleanupExpiredData = require('./jobs/cleanup')
cleanupExpiredDataImport == JobsCleanupExports

\* v() throws a TypeError unless v is a function
Callable(v) == v.kind = "function"

\* cron.schedule(`0 */1 * * *`, () => { cleanupExpiredData() }): the timer
\* fires once for an hour; the callback either runs the job or throws at the
\* call, and the tick is over
CronTickB ==
    /\ sweep.pc = "idle" /\ sweep.at < now
    /\ LET s == IF Callable(cleanupExpiredDataImport)
                THEN cleanupExpiredData(Store, now)
                ELSE Store
       IN  /\ moments' = s.moments
           /\ posts' = s.posts
           /\ moods' = s.moods
           /\ messages' = s.messages
    /\ sweep' = [IdleSweep EXCEPT !.at = now]
    /\ UNCHANGED <<now, nextId, req, sockets>>

(***************************************************************************)
(* userId back end: cleanupInactiveParticipants.                           *)
(***************************************************************************)
\* the filter that keeps every participant
EveryParticipant(ps, t) == ps

\* moment.participants.filter(p => p.lastActive > inactiveThreshold), where
\* inactiveThreshold is InactiveMinutes before t; times are in hours
ActiveParticipants(ps, t) ==
    SelectSeq(ps, LAMBDA p : p.lastActive * MinutesPerHour
                                > t * MinutesPerHour - InactiveMinutes)

\* the user ids of a participant list, in its order
Members(ps) == [i \in DOMAIN ps |-> ps[i].userId]

\* how moment.save() of a document loaded with participants ps can end: it
\* sets the whole array under the filter { _id, __v }.  A refreshed
\* lastActive leaves __v alone; whether a participant added or removed since
\* the load has advanced __v is up to Moment.addParticipant and
\* Moment.removeParticipant
SaveOutcomes(m, ps) ==
    IF m \notin DOMAIN moments THEN {"error"}
    ELSE IF Members(moments[m].participants) = Members(ps) THEN {"saved"}
    ELSE {"saved", "error"}

\* inactiveThreshold = now - 30 min; const moments = await Moment.find({ isActive: true })
PruneFindB ==
    /\ sweep.pc = "idle"
    /\ LET ids == {m \in DOMAIN moments : moments[m].isActive}
       IN  sweep' = [pc |-> "prune", at |-> now, t |-> now, ids |-> ids,
                     docs |-> [m \in ids |-> moments[m].participants]]
    /\ UNCHANGED <<now, moments, posts, moods, messages, nextId, req, sockets>>

\* one round of  for (const moment of moments): filter its participants and,
\* if any is dropped, await moment.save(), with isActive = false when none
\* is left; a failed save ends the job in its catch block
PruneSaveB ==
    /\ sweep.pc = "prune" /\ sweep.ids /= {}
    /\ LET m == CHOOSE x \in sweep.ids : \A y \in sweep.ids : x <= y
           loaded == sweep.docs[m]
           activeParticipants == ActiveParticipants(loaded, sweep.t)
           removedCount == Len(loaded) - Len(activeParticipants)
           next == [sweep EXCEPT !.ids = @ \ {m}]
       IN  IF removedCount > 0
           THEN \E outcome \in SaveOutcomes(m, loaded) :
                   IF outcome = "saved"
                   THEN /\ moments' = [moments EXCEPT ![m] =
                               IF Len(activeParticipants) = 0
                               THEN MarkInactive([@ EXCEPT !.participants = activeParticipants])
                               ELSE [@ EXCEPT !.participants = activeParticipants]]
                        /\ sweep' = next
                   ELSE /\ sweep' = IdleSweep
                        /\ UNCHANGED moments
           ELSE /\ sweep' = next
                /\ UNCHANGED moments
    /\ UNCHANGED <<now, posts, moods, messages, nextId, req, sockets>>

\* the loop is over: return { success: true, removedParticipants }
PruneReturnB ==
    /\ sweep.pc = "prune" /\ sweep.ids = {}
    /\ sweep' = IdleSweep
    /\ UNCHANGED <<now, moments, posts, moods, messages, nextId, req, sockets>>

PruneB == PruneFindB \/ PruneSaveB \/ PruneReturnB

(***************************************************************************)
(* MongoDB's TTL monitor on the indexes the schemas declare: a document    *)
(* whose TTL has passed is removed at some later moment.                   *)
(***************************************************************************)
\* moodSchema.index({ createdAt: 1 }, { expireAfterSeconds: 24h })
TTLMood ==
    /\ \E i \in DOMAIN moods :
         /\ moods[i].createdAt + WindowHours <= now
         /\ moods' = Without(moods, {i})
    /\ UNCHANGED <<now, moments, posts, messages, nextId, req, sweep, sockets>>

\* postSchema.index({ createdAt: 1 }, { expireAfterSeconds: 24h })
TTLPostB ==
    /\ \E p \in DOMAIN posts :
         /\ posts[p].createdAt + WindowHours <= now
         /\ posts' = Without(posts, {p})
    /\ UNCHANGED <<now, moments, moods, messages, nextId, req, sweep, sockets>>

\* chatMessageSchema.index({ createdAt: 1 }, { expireAfterSeconds: 24h })
TTLMessageB ==
    /\ \E i \in DOMAIN messages :
         /\ messages[i].createdAt + WindowHours <= now
         /\ messages' = Without(messages, {i})
    /\ UNCHANGED <<now, moments, posts, moods, nextId, req, sweep, sockets>>

(***************************************************************************)
(* anonymousId back end: POST /api/moments.                                *)
(***************************************************************************)
\* a Moment whose timeWindow.end defaults to the time of its creation
NewMomentEndingA(id, loc, u, t) ==
    [id |-> id, loc |-> loc, createdAt |-> t, end |-> t,
     isActive |-> TRUE, isArchived |-> FALSE,
     participants |-> <<[anonymousId |-> u]>>,
     moodSummary |-> [calm |-> 0, happy |-> 0, total |-> 0],
     totalPosts |-> 0, postRefs |-> <<>>]

\* a Moment of the anonymousId back end with the defaults of its schema
NewMomentA(id, loc, u, t) ==
    [id |-> id, loc |-> loc, createdAt |-> t, end |-> t + WindowHours,
     isActive |-> TRUE, isArchived |-> FALSE,
     participants |-> <<[anonymousId |-> u]>>,
     moodSummary |-> [calm |-> 0, happy |-> 0, total |-> 0],
     totalPosts |-> 0, postRefs |-> <<>>]

LoadedA(doc) == [id |-> doc.id, participants |-> doc.participants, totalPosts |-> 0]

\* great-circle distance along a meridian: 0.0001 degree is 11.1 m
DistMeters(a, b) == (Abs(a - b) * 111) \div 10

\* the filter of findNearby without the 'timeWindow.end' condition
MatchesNearbyIgnoringExpiry(doc, loc, radius, t) ==
    /\ DistMeters(doc.loc, loc) <= radius
    /\ doc.isActive

\* the filter of Moment.findNearby
MatchesNearby(doc, loc, radius, t) ==
    /\ DistMeters(doc.loc, loc) <= radius
    /\ doc.isActive
    /\ doc.end > t

\* Moment.findNearby: $near returns the matches nearest first
findNearby(loc, radius) == {m \in DOMAIN moments : MatchesNearby(moments[m], loc, radius, now)}

\* nearbyMoments[0]
Nearest(ms, loc) ==
    {m \in ms : \A o \in ms : DistMeters(moments[m].loc, loc) <= DistMeters(moments[o].loc, loc)}

\* const nearbyMoments = await Moment.findNearby(longitude, latitude, 50)
CreateOrJoinFindA(r) ==
    /\ ~Busy(r)
    /\ \E u \in Users, loc \in LocsA :
         LET nearby == findNearby(loc, JoinRadiusMeters)
         IN  \E doc \in IF nearby = {} THEN {NoDoc}
                        ELSE {LoadedA(moments[m]) : m \in Nearest(nearby, loc)} :
             /\ doc.id = 0 => nextId.moment + Cardinality(Creating) <= MaxMomentsA
             /\ req' = [req EXCEPT ![r] =
                          [Begin(r, "createOrJoin", "save", u) EXCEPT !.loc = loc, !.doc = doc]]
    /\ UNCHANGED <<now, moments, posts, moods, messages, nextId, sweep, sockets>>

\* Moment.addParticipant: push unless the loaded document already lists the user
AddParticipantA(stored, doc, u) ==
    IF \E i \in DOMAIN doc.participants : doc.participants[i].anonymousId = u
    THEN stored
    ELSE Append(stored, [anonymousId |-> u])

\* isNewMoment: nearbyMoments.length === 0
isNewMoment(doc) == doc.id = 0

\* await moment.addParticipant(anonymousId)  or  await moment.save(); 201
\* with isNewMoment, or 500 when the save of the loaded document fails.
\* keep tells whether the client keeps the response.
CreateOrJoinStoreA(r, keep) ==
    /\ req[r].op = "createOrJoin" /\ req[r].pc = "save"
    /\ LET doc == req[r].doc
           u == req[r].user
           created == IF isNewMoment(doc) THEN "created" ELSE "joined"
       IN  IF doc.id /= 0
           THEN IF doc.id \in DOMAIN moments
                THEN /\ moments' = [moments EXCEPT ![doc.id].participants =
                                        AddParticipantA(@, doc, u)]
                     /\ req' = Answer(r, created, doc.id, keep)
                     /\ UNCHANGED nextId
                ELSE /\ req' = Answer(r, "error", 0, keep)
                     /\ UNCHANGED <<moments, nextId>>
           ELSE /\ moments' = With(moments, nextId.moment,
                                   NewMomentA(nextId.moment, req[r].loc, u, now))
                /\ nextId' = [nextId EXCEPT !.moment = @ + 1]
                /\ req' = Answer(r, created, nextId.moment, keep)
    /\ UNCHANGED <<now, posts, moods, messages, sweep, sockets>>

\* the handler's last step, its response discarded
CreateOrJoinSaveA(r) == CreateOrJoinStoreA(r, FALSE)

\* the handler's last step, its response kept by the client
CreateOrJoinReportA(r) == CreateOrJoinStoreA(r, TRUE)

(***************************************************************************)
(* anonymousId back end: POST /api/moments/:id/posts.                      *)
(***************************************************************************)
\* virtual isExpired: new Date() > this.timeWindow.end
isExpired(doc, t) == t > doc.end

\* handlers that may still insert a Post
PostingA == {r \in Reqs : req[r].op = "postA" /\ req[r].pc = "savePost"}

\* const moment = await Moment.findById(id); 404; 410 when moment.isExpired
PostFindA(r) ==
    /\ ~Busy(r)
    /\ \E u \in Users, mood \in MoodsA, m \in 1..nextId.moment :
         LET start == [Begin(r, "postA", "savePost", u) EXCEPT !.mid = m, !.mood = mood]
         IN  IF m \notin DOMAIN moments
             THEN req' = Reject(r, start, "notFound")
             ELSE IF isExpired(moments[m], now)
             THEN req' = Reject(r, start, "expired")
             ELSE /\ nextId.post + Cardinality(PostingA) <= MaxPosts
                  /\ req' = [req EXCEPT ![r] =
                               [start EXCEPT !.doc = LoadedA(moments[m]),
                                             !.summary = moments[m].moodSummary]]
    /\ UNCHANGED <<now, moments, posts, moods, messages, nextId, sweep, sockets>>

\* await post.save()
PostSaveA(r) ==
    /\ req[r].op = "postA" /\ req[r].pc = "savePost"
    /\ posts' = With(posts, nextId.post,
                     [id |-> nextId.post, momentId |-> req[r].mid, userId |-> req[r].user,
                      createdAt |-> now, isVisible |-> TRUE])
    /\ nextId' = [nextId EXCEPT !.post = @ + 1]
    /\ req' = [req EXCEPT ![r].pc = "updateMood", ![r].result = nextId.post]
    /\ UNCHANGED <<now, moments, moods, messages, sweep, sockets>>

\* Moment.updateMood on the loaded document: moodSummary[mood]++, total++
updateMood(summary, mood) ==
    IF mood \in DOMAIN summary
    THEN [summary EXCEPT ![mood] = @ + 1, !.total = @ + 1]
    ELSE summary

\* this.save() after updateMood: the update sets the paths the method
\* modified, moodSummary[mood] and moodSummary.total, to the values of the
\* loaded document and leaves the other counters as stored
SaveMood(stored, summary, mood) ==
    IF mood \in DOMAIN summary
    THEN [stored EXCEPT ![mood] = updateMood(summary, mood)[mood],
                        !.total = updateMood(summary, mood).total]
    ELSE stored

\* moment.posts.push(post._id); await moment.updateMood(mood); emit newPost; 201
PostUpdateMoodA(r) ==
    /\ req[r].op = "postA" /\ req[r].pc = "updateMood"
    /\ IF req[r].mid \in DOMAIN moments
       THEN /\ moments' = [moments EXCEPT
                              ![req[r].mid].postRefs = Append(@, req[r].result),
                              ![req[r].mid].moodSummary = SaveMood(@, req[r].summary, req[r].mood)]
            /\ req' = Respond(r, "ok", req[r].result)
       ELSE /\ req' = Respond(r, "error", req[r].result)
            /\ UNCHANGED moments
    /\ UNCHANGED <<now, posts, moods, messages, nextId, sweep, sockets>>

(***************************************************************************)
(* anonymousId back end: POST /api/moments/:id/moods.                      *)
(***************************************************************************)
\* const moment = await Moment.findById(id); 404; 410 when moment.isExpired
MoodFindA(r) ==
    /\ ~Busy(r)
    /\ \E u \in Users, mood \in MoodsA, m \in 1..nextId.moment :
         LET start == [Begin(r, "moodA", "updateMood", u) EXCEPT !.mid = m, !.mood = mood]
         IN  IF m \notin DOMAIN moments
             THEN req' = Reject(r, start, "notFound")
             ELSE IF isExpired(moments[m], now)
             THEN req' = Reject(r, start, "expired")
             ELSE /\ moments[m].moodSummary.total < MaxSubmits
                  /\ req' = [req EXCEPT ![r] =
                               [start EXCEPT !.doc = LoadedA(moments[m]),
                                             !.summary = moments[m].moodSummary]]
    /\ UNCHANGED <<now, moments, posts, moods, messages, nextId, sweep, sockets>>

\* await moment.updateMood(mood); emit moodUpdate; 200
MoodUpdateA(r) ==
    /\ req[r].op = "moodA" /\ req[r].pc = "updateMood"
    /\ IF req[r].mid \in DOMAIN moments
       THEN /\ moments' = [moments EXCEPT
                              ![req[r].mid].moodSummary = SaveMood(@, req[r].summary, req[r].mood)]
            /\ req' = Respond(r, "ok", req[r].mid)
       ELSE /\ req' = Respond(r, "error", 0)
            /\ UNCHANGED moments
    /\ UNCHANGED <<now, posts, moods, messages, nextId, sweep, sockets>>

(***************************************************************************)
(* anonymousId back end: the cron job cleanupExpiredMoments.               *)
(***************************************************************************)
\* expiredMoments = await Moment.find({'timeWindow.end' <= now, isArchived: false})
SweepFindExpiredA ==
    /\ sweep.pc = "idle"
    /\ sweep' = [pc |-> "archive", at |-> now, t |-> 0,
                 ids |-> {m \in DOMAIN moments :
                             moments[m].end <= now /\ ~moments[m].isArchived}]
    /\ UNCHANGED <<now, moments, posts, moods, messages, nextId, req, sockets>>

\* moment.isArchived = true; moment.isActive = false; await moment.save()
\* (a save of a document the TTL monitor has removed either rejects, which
\*  ends the job in its catch block, or writes nothing)
SweepArchiveA ==
    /\ sweep.pc = "archive"
    /\ \E m \in sweep.ids :
         IF m \in DOMAIN moments
         THEN /\ moments' = [moments EXCEPT ![m].isArchived = TRUE, ![m].isActive = FALSE]
              /\ sweep' = [sweep EXCEPT !.ids = @ \ {m}]
         ELSE /\ \/ sweep' = IdleSweep
                 \/ sweep' = [sweep EXCEPT !.ids = @ \ {m}]
              /\ UNCHANGED moments
    /\ UNCHANGED <<now, posts, moods, messages, nextId, req, sockets>>

\* oldMoments = await Moment.find({'timeWindow.end' <= now - 30d, isArchived: true})
SweepFindOldA ==
    /\ sweep.pc = "archive" /\ sweep.ids = {}
    /\ LET old == {m \in DOMAIN moments :
                      moments[m].end <= now - ArchiveDeleteHours /\ moments[m].isArchived}
       IN  sweep' = IF old = {}
                    THEN IdleSweep
                    ELSE [sweep EXCEPT !.pc = "deletePosts", !.ids = old]
    /\ UNCHANGED <<now, moments, posts, moods, messages, nextId, req, sockets>>

\* await Post.deleteMany({ momentId: { $in: momentIds } })
SweepDeletePostsA ==
    /\ sweep.pc = "deletePosts"
    /\ posts' = Without(posts, {p \in DOMAIN posts : posts[p].momentId \in sweep.ids})
    /\ sweep' = [sweep EXCEPT !.pc = "deleteMoments"]
    /\ UNCHANGED <<now, moments, moods, messages, nextId, req, sockets>>

\* await Moment.deleteMany({ _id: { $in: momentIds } })
SweepDeleteMomentsA ==
    /\ sweep.pc = "deleteMoments"
    /\ moments' = Without(moments, sweep.ids)
    /\ sweep' = IdleSweep
    /\ UNCHANGED <<now, posts, moods, messages, nextId, req, sockets>>

\* momentSchema.index({ 'timeWindow.end': 1 }, { expireAfterSeconds: 0 })
TTLMomentA ==
    /\ \E m \in DOMAIN moments :
         /\ moments[m].end <= now
         /\ moments' = Without(moments, {m})
    /\ UNCHANGED <<now, posts, moods, messages, nextId, req, sweep, sockets>>

TickA == Tick(TimesA)

SweepA ==
    \/ SweepFindExpiredA \/ SweepArchiveA \/ SweepFindOldA
    \/ SweepDeletePostsA \/ SweepDeleteMomentsA

(***************************************************************************)
(* anonymousId back end: the chat events of sockets/chatHandler.js.        *)
(***************************************************************************)
\* io.use(sessionMiddleware): a connection carries the session of its client
ConnectA(c) ==
    /\ sockets[c].session = "none"
    /\ \E u \in Users : sockets' = [sockets EXCEPT ![c].session = u]
    /\ UNCHANGED <<now, moments, posts, moods, messages, nextId, req, sweep>>

\* canAccessMoment: isParticipant || moment.isArchived || moment.isExpired
canAccessMoment(m, u, t) ==
    /\ m \in DOMAIN moments
    /\ \/ \E i \in DOMAIN moments[m].participants : moments[m].participants[i].anonymousId = u
       \/ moments[m].isArchived
       \/ isExpired(moments[m], t)

\* joinMoment up to its second await: session check, canAccessMoment,
\* socket.join(roomId), socket.currentMomentId, socket.anonymousId
JoinMomentA(r) ==
    /\ ~Busy(r)
    /\ \E c \in Conns, m \in 1..nextId.moment :
         LET u == sockets[c].session
             start == [Begin(r, "joinMoment", "history", u) EXCEPT !.mid = m, !.conn = c]
         IN  IF u = "none" \/ ~canAccessMoment(m, u, now)
             THEN /\ req' = Reject(r, start, "error")
                  /\ sockets' = Fail(sockets, c)
             ELSE /\ req' = [req EXCEPT ![r] = start]
                  /\ sockets' = [sockets EXCEPT ![c].rooms = @ \cup {m},
                                                ![c].currentMomentId = m,
                                                ![c].anonymousId = u]
    /\ UNCHANGED <<now, moments, posts, moods, messages, nextId, sweep>>

\* ChatMessage.getRecentMessages of models/ChatMessage.js
getRecentMessagesA(m, limit, t) ==
    {Limit(s, limit) :
        s \in Descending({i \in DOMAIN messages :
                             messages[i].momentId = m /\ messages[i].expiresAt > t}, messages)}

\* await ChatMessage.getRecentMessages(momentId, 20); emit chatHistory
JoinMomentHistoryA(r) ==
    /\ req[r].op = "joinMoment" /\ req[r].pc = "history"
    /\ \E recent \in getRecentMessagesA(req[r].mid, HistoryLimit, now) :
         sockets' = Emit(sockets, {req[r].conn},
                         [name |-> "chatHistory", count |-> 0, msgs |-> Reverse(recent)])
    /\ req' = [req EXCEPT ![r].pc = "count"]
    /\ UNCHANGED <<now, moments, posts, moods, messages, nextId, sweep>>

\* getParticipantCount: moment ? moment.participants.length : 0
getParticipantCount(m) == IF m \in DOMAIN moments THEN Len(moments[m].participants) ELSE 0

\* socket.to(roomId).emit('userJoined', { participantCount }); emit joinedMoment
JoinMomentCountA(r) ==
    /\ req[r].op = "joinMoment" /\ req[r].pc = "count"
    /\ sockets' = Done(Emit(Emit(sockets, InRoom(sockets, req[r].mid) \ {req[r].conn},
                                 Event("userJoined", getParticipantCount(req[r].mid))),
                            {req[r].conn}, Event("joinedMoment", req[r].mid)),
                       req[r].conn)
    /\ req' = Respond(r, "ok", req[r].mid)
    /\ UNCHANGED <<now, moments, posts, moods, messages, nextId, sweep>>

\* sendMessage up to its save: the checks and await Moment.findById(momentId)
SendMessageFindA(r) ==
    /\ ~Busy(r)
    /\ \E c \in Conns, text \in Texts(MaxMessageLenA) :
         LET m == sockets[c].currentMomentId
             u == sockets[c].anonymousId
             start == [Begin(r, "sendMessage", "save", u) EXCEPT !.mid = m, !.conn = c]
         IN  IF \/ m = 0 \/ u = "none"
                \/ text.trimmed = 0
                \/ text.len > MaxMessageLenA
                \/ m \notin DOMAIN moments
                \/ isExpired(moments[m], now)
             THEN /\ req' = Reject(r, start, "error")
                  /\ sockets' = Fail(sockets, c)
             ELSE /\ req' = [req EXCEPT ![r] = start]
                  /\ UNCHANGED sockets
    /\ UNCHANGED <<now, moments, posts, moods, messages, nextId, sweep>>

\* new ChatMessage({ momentId, anonymousId, message, messageType }): the
\* schema has no path anonymousId, so the strict constructor drops it and
\* anonymousUserId stays undefined
NewChatMessageA(id, m, u, t) ==
    [id |-> id, momentId |-> m, anonymousUserId |-> "none",
     createdAt |-> t, expiresAt |-> t + WindowHours]

\* the validators of chatMessageSchema: momentId and anonymousUserId required
ValidatesA(doc) == doc.momentId /= 0 /\ doc.anonymousUserId /= "none"

\* await chatMessage.save(); io.to(roomId).emit('newMessage'); emit messageSent
SendMessageSaveA(r) ==
    /\ req[r].op = "sendMessage" /\ req[r].pc = "save"
    /\ LET doc == NewChatMessageA(nextId.message, req[r].mid, req[r].user, now)
           c == req[r].conn
       IN  IF ValidatesA(doc)
           THEN /\ messages' = With(messages, doc.id, doc)
                /\ nextId' = [nextId EXCEPT !.message = @ + 1]
                /\ sockets' = Done(Emit([x \in Conns |->
                                      IF x \in InRoom(sockets, req[r].mid)
                                      THEN [sockets[x] EXCEPT !.last = Event("newMessage", doc.id),
                                                              !.inbox = Append(@, doc.id)]
                                      ELSE sockets[x]],
                                   {c}, Event("messageSent", doc.id)), c)
           ELSE /\ sockets' = Fail(sockets, c)
                /\ UNCHANGED <<messages, nextId>>
    /\ req' = Respond(r, "done", 0)
    /\ UNCHANGED <<now, moments, posts, moods, sweep>>

\* leaveMoment up to its await: socket.leave(roomId)
LeaveMomentA(r) ==
    /\ ~Busy(r)
    /\ \E c \in Conns :
         /\ sockets[c].currentMomentId /= 0
         /\ sockets' = [sockets EXCEPT ![c].rooms = @ \ {sockets[c].currentMomentId}]
         /\ req' = [req EXCEPT ![r] =
                      [Begin(r, "leaveMoment", "count", sockets[c].anonymousId)
                          EXCEPT !.mid = sockets[c].currentMomentId, !.conn = c]]
    /\ UNCHANGED <<now, moments, posts, moods, messages, nextId, sweep>>

\* socket.to(roomId).emit('userLeft', { participantCount: await
\* getParticipantCount(...) }); currentMomentId = null; emit leftMoment
LeaveMomentCountA(r) ==
    /\ req[r].op = "leaveMoment" /\ req[r].pc = "count"
    /\ LET c == req[r].conn
           told == Emit(sockets, InRoom(sockets, req[r].mid) \ {c},
                        Event("userLeft", getParticipantCount(req[r].mid)))
       IN  sockets' = Done(Emit([told EXCEPT ![c].currentMomentId = 0,
                                             ![c].anonymousId = "none"],
                                {c}, Event("leftMoment", req[r].mid)), c)
    /\ req' = Respond(r, "ok", req[r].mid)
    /\ UNCHANGED <<now, moments, posts, moods, messages, nextId, sweep>>

\* the transport closes: Socket.IO takes the connection out of its rooms and
\* then runs the disconnect handler up to its await
DisconnectA(r) ==
    /\ ~Busy(r)
    /\ \E c \in Conns :
         /\ sockets[c].session /= "none"
         /\ sockets' = [sockets EXCEPT ![c] = NoSocket]
         /\ req' = IF sockets[c].currentMomentId = 0
                   THEN req
                   ELSE [req EXCEPT ![r] =
                           [Begin(r, "disconnect", "count", sockets[c].anonymousId)
                               EXCEPT !.mid = sockets[c].currentMomentId, !.conn = c]]
    /\ UNCHANGED <<now, moments, posts, moods, messages, nextId, sweep>>

\* socket.to(roomId).emit('userLeft', { participantCount: await
\* getParticipantCount(socket.currentMomentId) })
DisconnectCountA(r) ==
    /\ req[r].op = "disconnect" /\ req[r].pc = "count"
    /\ sockets' = Emit(sockets, InRoom(sockets, req[r].mid) \ {req[r].conn},
                       Event("userLeft", getParticipantCount(req[r].mid)))
    /\ req' = Respond(r, "ok", req[r].mid)
    /\ UNCHANGED <<now, moments, posts, moods, messages, nextId, sweep>>

\* concurrent requests next to the TTL monitor
NextJoinA ==
    \/ TickA
    \/ \E r \in Reqs : CreateOrJoinFindA(r) \/ CreateOrJoinSaveA(r)
    \/ TTLMomentA

SpecJoinA == Init /\ [][NextJoinA]_vars

\* a client that reads its responses, next to the cleanup job and the TTL
\* monitor
NextCreateA ==
    \/ TickA
    \/ CreateOrJoinFindA("r1") \/ CreateOrJoinReportA("r1")
    \/ SweepA
    \/ TTLMomentA

SpecCreateA == Init /\ [][NextCreateA]_vars

\* one moment that u1 created at time 0 and that u2 may have joined since
InitChatA ==
    /\ now = 0
    /\ \E ps \in {<<[anonymousId |-> "u1"]>>,
                  <<[anonymousId |-> "u1"], [anonymousId |-> "u2"]>>} :
         moments = <<[NewMomentA(1, 0, "u1", 0) EXCEPT !.participants = ps]>>
    /\ posts = <<>>
    /\ moods = <<>>
    /\ messages = <<>>
    /\ nextId = [moment |-> 2, post |-> 1, mood |-> 1, message |-> 1]
    /\ req = [r \in Reqs |-> IdleReq]
    /\ sweep = IdleSweep
    /\ sockets = [c \in Conns |-> NoSocket]

\* chat rooms of the anonymousId back end, one handler at a time
NextChatA ==
    \/ \E c \in Conns : ConnectA(c)
    \/ TickA
    \/ JoinMomentA("r1") \/ JoinMomentHistoryA("r1") \/ JoinMomentCountA("r1")
    \/ SendMessageFindA("r1") \/ SendMessageSaveA("r1")
    \/ LeaveMomentA("r1") \/ LeaveMomentCountA("r1")
    \/ DisconnectA("r1") \/ DisconnectCountA("r1")

SpecChatA == InitChatA /\ [][NextChatA]_vars

\* POST /api/moments while connections sit in the rooms of the moments
NextRoomA ==
    \/ \E c \in Conns : ConnectA(c)
    \/ CreateOrJoinFindA("r1") \/ CreateOrJoinSaveA("r1")
    \/ JoinMomentA("r1") \/ JoinMomentHistoryA("r1") \/ JoinMomentCountA("r1")

SpecRoomA == InitChatA /\ [][NextRoomA]_vars

\* concurrent moods and posts on the anonymousId back end
NextMoodA ==
    \/ \E r \in Reqs : MoodFindA(r) \/ MoodUpdateA(r)
    \/ \E r \in Reqs : PostFindA(r) \/ PostSaveA(r) \/ PostUpdateMoodA(r)

SpecMoodA == InitChatA /\ [][NextMoodA]_vars

\* posting on the anonymousId back end, one request at a time
NextPostA ==
    \/ TickA
    \/ CreateOrJoinFindA("r1") \/ CreateOrJoinSaveA("r1")
    \/ PostFindA("r1") \/ PostSaveA("r1") \/ PostUpdateMoodA("r1")
    \/ TTLMomentA

SpecPostA == Init /\ [][NextPostA]_vars

\* one request at a time next to the cleanup job and the TTL monitor
NextNearA ==
    \/ TickA
    \/ CreateOrJoinFindA("r1") \/ CreateOrJoinSaveA("r1")
    \/ SweepA
    \/ TTLMomentA

SpecNearA == Init /\ [][NextNearA]_vars

(***************************************************************************)
(* Specifications.                                                         *)
(***************************************************************************)
SweepB ==
    \/ SweepExpireMomentsB \/ SweepHidePostsB \/ SweepDeleteMoodsB
    \/ SweepDeleteMessagesB \/ SweepHardMomentsB \/ SweepHardPostsB

\* one request at a time next to the cleanup job
NextLifeB ==
    \/ TickB
    \/ CreateOrJoinFindB("r1") \/ CreateOrJoinSaveB("r1")
    \/ PostFindB("r1") \/ PostSaveB("r1") \/ PostStatsB("r1") \/ PostActiveB("r1")
    \/ DeleteFindB("r1") \/ DeleteMomentB("r1") \/ DeletePostsB("r1") \/ DeleteMoodsB("r1")
    \/ SendFindB("r1") \/ SendSaveB("r1")
    \/ SweepB
    \/ TTLPostB \/ TTLMessageB

SpecLifeB == Init /\ [][NextLifeB]_vars

TickMood == Tick({36})

\* one vote request at a time next to the cleanup job
NextMoodSweepB ==
    \/ TickMood
    \/ VoteFindMomentB("r1") \/ VoteFindVoteB("r1") \/ VoteSaveVoteB("r1")
    \/ VoteSummaryB("r1") \/ VoteSaveSummaryB("r1") \/ VoteActiveB("r1")
    \/ UnvoteFindB("r1") \/ UnvoteDeleteB("r1")
    \/ SweepB
    \/ TTLMood


\* u1 has created moment 1 and u2 has joined it (two runs of POST /api/moments)
InitMood ==
    /\ now = 0
    /\ moments = <<[NewMomentB(1, 0, "u1", 0) EXCEPT
                       !.participants = Append(@, [userId |-> "u2", lastActive |-> 0])]>>
    /\ posts = <<>>
    /\ moods = <<>>
    /\ messages = <<>>
    /\ nextId = [moment |-> 2, post |-> 1, mood |-> 1, message |-> 1]
    /\ req = [r \in Reqs |-> IdleReq]
    /\ sweep = IdleSweep
    /\ sockets = [c \in Conns |-> NoSocket]

NextMoodB ==
    \/ \E r \in Reqs : VoteFindMomentB(r) \/ VoteFindVoteB(r) \/ VoteSaveVoteB(r)
    \/ \E r \in Reqs : VoteSummaryB(r) \/ VoteSaveSummaryB(r) \/ VoteActiveB(r)
    \/ \E r \in Reqs : UnvoteFindB(r) \/ UnvoteDeleteB(r)

SpecMoodB == InitMood /\ [][NextMoodB]_vars

SpecMoodSweepB == InitMood /\ [][NextMoodSweepB]_vars

\* a moment's life on the userId back end: one request at a time next to
\* the cleanup job
NextCycleB ==
    \/ TickB
    \/ CreateOrJoinFindB("r1") \/ CreateOrJoinSaveB("r1")
    \/ JoinFindB("r1") \/ JoinAddB("r1")
    \/ LeaveFindB("r1") \/ LeaveRemoveB("r1") \/ LeaveDeactivateB("r1")
    \/ DeleteFindB("r1") \/ DeleteMomentB("r1") \/ DeletePostsB("r1") \/ DeleteMoodsB("r1")
    \/ SweepB

SpecCycleB == Init /\ [][NextCycleB]_vars

\* at hour 2 moment 1 is active with u1 and possibly u2, last active at hour
\* 0, 1 or 2, and moment 2, of u2, is active or was left
InitPruneB ==
    /\ now = 2
    /\ \E a \in LastActivePrune, ps \in {<<>>} \cup {<<[userId |-> "u2", lastActive |-> b]>> :
                                                     b \in LastActivePrune},
          c \in LastActivePrune, active \in BOOLEAN :
         moments = <<[NewMomentB(1, 0, "u1", 0) EXCEPT
                         !.participants = <<[userId |-> "u1", lastActive |-> a]>> \o ps],
                     [NewMomentB(2, 11, "u2", 0) EXCEPT
                         !.participants = IF active
                                          THEN <<[userId |-> "u2", lastActive |-> c]>>
                                          ELSE <<>>,
                         !.isActive = active]>>
    /\ posts = <<>>
    /\ moods = <<>>
    /\ messages = <<>>
    /\ nextId = [moment |-> 3, post |-> 1, mood |-> 1, message |-> 1]
    /\ req = [r \in Reqs |-> IdleReq]
    /\ sweep = IdleSweep
    /\ sockets = [c \in Conns |-> NoSocket]

TickPrune == Tick(TimesPrune)

\* the inactivity prune on its own while time passes
NextPruneB ==
    \/ TickPrune
    \/ PruneB

SpecPruneB == InitPruneB /\ [][NextPruneB]_vars

\* a moment's life on the running server: one request at a time next to the
\* timer of the cleanup job
NextCronB ==
    \/ TickB
    \/ CreateOrJoinFindB("r1") \/ CreateOrJoinSaveB("r1")
    \/ JoinFindB("r1") \/ JoinAddB("r1")
    \/ LeaveFindB("r1") \/ LeaveRemoveB("r1") \/ LeaveDeactivateB("r1")
    \/ CronTickB

\* a handler that has started runs to its end
FinishB ==
    \/ CreateOrJoinSaveB("r1") \/ JoinAddB("r1")
    \/ LeaveRemoveB("r1") \/ LeaveDeactivateB("r1")

\* time passes, the timer fires whenever it is due and handlers finish
SpecCronB ==
    /\ Init /\ [][NextCronB]_vars
    /\ WF_vars(TickB) /\ WF_vars(CronTickB) /\ WF_vars(FinishB)

\* u1 has created moment 1, u2 has joined it and u1 has posted post 1
InitReact ==
    /\ now = 0
    /\ moments = <<[NewMomentB(1, 0, "u1", 0) EXCEPT
                       !.participants = Append(@, [userId |-> "u2", lastActive |-> 0]),
                       !.totalPosts = 1]>>
    /\ posts = <<NewPostB(1, 1, "u1", 0)>>
    /\ moods = <<>>
    /\ messages = <<>>
    /\ nextId = [moment |-> 2, post |-> 2, mood |-> 1, message |-> 1]
    /\ req = [r \in Reqs |-> IdleReq]
    /\ sweep = IdleSweep
    /\ sockets = [c \in Conns |-> NoSocket]

\* moment 1 of u1, joined by u2, without a post yet
InitPostsB ==
    /\ now = 0
    /\ moments = <<[NewMomentB(1, 0, "u1", 0) EXCEPT
                       !.participants = Append(@, [userId |-> "u2", lastActive |-> 0])]>>
    /\ posts = <<>>
    /\ moods = <<>>
    /\ messages = <<>>
    /\ nextId = [moment |-> 2, post |-> 1, mood |-> 1, message |-> 1]
    /\ req = [r \in Reqs |-> IdleReq]
    /\ sweep = IdleSweep
    /\ sockets = [c \in Conns |-> NoSocket]

\* concurrent posts and deletions of posts
NextPostsB ==
    \/ \E r \in Reqs : PostFindB(r) \/ PostSaveB(r) \/ PostStatsB(r) \/ PostActiveB(r)
    \/ \E r \in Reqs : \/ DeletePostFindB(r) \/ DeletePostHideB(r)
                       \/ DeletePostFindMomentB(r) \/ DeletePostStatsB(r)

SpecPostsB == InitPostsB /\ [][NextPostsB]_vars

\* concurrent reactions
NextReactB ==
    \/ \E r \in Reqs : ReactFindPostB(r) \/ ReactFindMomentB(r) \/ ReactSaveB(r)
    \/ \E r \in Reqs : UnreactFindB(r) \/ UnreactSaveB(r)

SpecReactB == InitReact /\ [][NextReactB]_vars

\* one moment, which u1 created at time 0
InitChatB ==
    /\ now = 0
    /\ moments = <<NewMomentB(1, 0, "u1", 0)>>
    /\ posts = <<>>
    /\ moods = <<>>
    /\ messages = <<>>
    /\ nextId = [moment |-> 2, post |-> 1, mood |-> 1, message |-> 1]
    /\ req = [r \in Reqs |-> IdleReq]
    /\ sweep = IdleSweep
    /\ sockets = [c \in Conns |-> NoSocket]

\* chat rooms of the userId back end, one handler at a time
NextChatB ==
    \/ \E c \in Conns : AuthenticateB(c)
    \/ SocketJoinFindB("r1") \/ SocketJoinTouchB("r1")
    \/ SocketJoinHistoryB("r1") \/ SocketJoinEmitB("r1")
    \/ SendMessageFindB("r1") \/ SendMessageSaveB("r1") \/ SendMessageEmitB("r1")
    \/ \E c \in Conns : SocketLeaveB(c) \/ DisconnectB(c)

SpecChatB == InitChatB /\ [][NextChatB]_vars

\* a moment in its window with few chat messages or with about HistoryLimit
\* of them, sent an hour apart (the second one possibly within the same
\* instant as the first), and two authenticated connections
InitHistoryB ==
    /\ now = MaxHistory - 1
    /\ moments = <<NewMomentB(1, 0, "u1", 0)>>
    /\ posts = <<>>
    /\ moods = <<>>
    /\ \E k \in {0, 2} \cup HistoryLimit..MaxHistory, tie \in BOOLEAN :
         /\ messages = [i \in 1..k |->
                          LET t == IF tie /\ i = 2 THEN 0 ELSE i - 1
                          IN  [id |-> i, momentId |-> 1, userId |-> "u1", createdAt |-> t,
                               expiresAt |-> t + WindowHours, isVisible |-> TRUE]]
         /\ nextId = [moment |-> 2, post |-> 1, mood |-> 1, message |-> k + 1]
    /\ req = [r \in Reqs |-> IdleReq]
    /\ sweep = IdleSweep
    /\ sockets = [c \in Conns |->
                    [NoSocket EXCEPT !.userId = IF c = "c1" THEN "u1" ELSE "u2"]]

TickHistory == Tick(TimesHistory)

\* joining a room with a chat history, next to the cleanup job
NextHistoryB ==
    \/ TickHistory
    \/ SocketJoinFindB("r1") \/ SocketJoinTouchB("r1")
    \/ SocketJoinHistoryB("r1") \/ SocketJoinEmitB("r1")
    \/ SweepB

SpecHistoryB == InitHistoryB /\ [][NextHistoryB]_vars

\* u1 and u2 take part in moment 1 and each has a connection in its room
InitOrderB ==
    /\ now = 0
    /\ moments = <<[NewMomentB(1, 0, "u1", 0) EXCEPT
                      !.participants = Append(@, [userId |-> "u2", lastActive |-> 0])]>>
    /\ posts = <<>>
    /\ moods = <<>>
    /\ messages = <<>>
    /\ nextId = [moment |-> 2, post |-> 1, mood |-> 1, message |-> 1]
    /\ req = [r \in Reqs |-> IdleReq]
    /\ sweep = IdleSweep
    /\ sockets = [c \in Conns |->
                    [NoSocket EXCEPT !.userId = IF c = "c1" THEN "u1" ELSE "u2",
                                     !.currentMoment = 1, !.rooms = {1}]]

\* concurrent send_message handlers
NextOrderB ==
    \E r \in Reqs : SendMessageFindB(r) \/ SendMessageSaveB(r) \/ SendMessageEmitB(r)

SpecOrderB == InitOrderB /\ [][NextOrderB]_vars

\* a moment created at time 0 with, possibly, a post, a vote and a chat
\* message of u1, each made at time 0 or 12
InitSweepB ==
    /\ now = 12
    /\ posts \in {<<>>} \cup {<<NewPostB(1, 1, "u1", t)>> : t \in CreatedAtSweep}
    /\ moments = <<[NewMomentB(1, 0, "u1", 0) EXCEPT !.totalPosts = Len(posts)]>>
    /\ moods \in {<<>>} \cup
                 {<<[id |-> 1, momentId |-> 1, userId |-> "u1", mood |-> "calm",
                     intensity |-> 2, createdAt |-> t]>> : t \in CreatedAtSweep}
    /\ messages \in {<<>>} \cup
                    {<<[id |-> 1, momentId |-> 1, userId |-> "u1", createdAt |-> t,
                        expiresAt |-> t + WindowHours, isVisible |-> TRUE]>> :
                       t \in CreatedAtSweep}
    /\ nextId = [moment |-> 2, post |-> Len(posts) + 1, mood |-> Len(moods) + 1,
                 message |-> Len(messages) + 1]
    /\ req = [r \in Reqs |-> IdleReq]
    /\ sweep = IdleSweep
    /\ sockets = [c \in Conns |-> NoSocket]

TickSweep == Tick(TimesSweep)

\* the hourly job next to the TTL monitor, no request in flight
NextSweepB ==
    \/ TickSweep
    \/ SweepB
    \/ TTLMood \/ TTLPostB \/ TTLMessageB

SpecSweepB == InitSweepB /\ [][NextSweepB]_vars

\* moment 1 of u1 and u2; the connection of u1 is in its room, the one of u2
\* has authenticated
InitJoinSendB ==
    /\ now = 0
    /\ moments = <<[NewMomentB(1, 0, "u1", 0) EXCEPT
                      !.participants = Append(@, [userId |-> "u2", lastActive |-> 0])]>>
    /\ posts = <<>>
    /\ moods = <<>>
    /\ messages = <<>>
    /\ nextId = [moment |-> 2, post |-> 1, mood |-> 1, message |-> 1]
    /\ req = [r \in Reqs |-> IdleReq]
    /\ sweep = IdleSweep
    /\ sockets = [c \in Conns |->
                    IF c = "c1"
                    THEN [NoSocket EXCEPT !.userId = "u1", !.currentMoment = 1, !.rooms = {1}]
                    ELSE [NoSocket EXCEPT !.userId = "u2"]]

\* a join_moment handler next to a send_message handler
NextJoinSendB ==
    \/ SocketJoinFindB("r1") \/ SocketJoinTouchB("r1")
    \/ SocketJoinHistoryB("r1") \/ SocketJoinEmitB("r1")
    \/ SendMessageFindB("r2") \/ SendMessageSaveB("r2") \/ SendMessageEmitB("r2")

SpecJoinSendB == InitJoinSendB /\ [][NextJoinSendB]_vars

\* a join next to a leave and to the inactivity prune
NextJoinLeaveB ==
    \/ TickB
    \/ JoinFindB("r1") \/ JoinAddB("r1")
    \/ LeaveFindB("r2") \/ LeaveRemoveB("r2") \/ LeaveDeactivateB("r2")
    \/ PruneB

SpecJoinLeaveB == InitChatB /\ [][NextJoinLeaveB]_vars

\* POST /api/moments of the userId back end while connections sit in the
\* rooms of the moments
NextRoomB ==
    \/ \E c \in Conns : AuthenticateB(c)
    \/ CreateOrJoinFindB("r1") \/ CreateOrJoinSaveB("r1")
    \/ SocketJoinFindB("r1") \/ SocketJoinTouchB("r1")
    \/ SocketJoinHistoryB("r1") \/ SocketJoinEmitB("r1")

SpecRoomB == InitChatB /\ [][NextRoomB]_vars

(***************************************************************************)
(* GET /api/moods/moment/:momentId over every multiset of votes.           *)
(***************************************************************************)
\* const moment = await Moment.findById(req.params.momentId); 404
SummaryFindB(r) ==
    /\ ~Busy(r)
    /\ \E m \in 1..nextId.moment :
         req' = IF m \in DOMAIN moments
                THEN [req EXCEPT ![r] = [Begin(r, "getSummary", "aggregate", "u1")
                                            EXCEPT !.mid = m]]
                ELSE Reject(r, "getSummary", "notFound")
    /\ UNCHANGED <<now, moments, posts, moods, messages, nextId, sweep, sockets>>

\* const moodSummary = await Mood.getMoodSummary(req.params.momentId)
SummaryAggregateB(r) ==
    /\ req[r].op = "getSummary" /\ req[r].pc = "aggregate"
    /\ \E s \in getMoodSummary(moods, req[r].mid) :
         req' = [req EXCEPT ![r].pc = "respond", ![r].summary = s]
    /\ UNCHANGED <<now, moments, posts, moods, messages, nextId, sweep, sockets>>

\* res.json({ success: true, data: { moodSummary } })
SummaryRespondB(r) ==
    /\ req[r].op = "getSummary" /\ req[r].pc = "respond"
    /\ req' = Respond(r, "ok", 0)
    /\ UNCHANGED <<now, moments, posts, moods, messages, nextId, sweep, sockets>>

RECURSIVE VotesFor(_, _)
\* one mood name per vote, for the vote counts c of the moods in ms
VotesFor(c, ms) ==
    IF ms = {} THEN <<>>
    ELSE LET k == CHOOSE x \in ms : TRUE
         IN  [i \in 1..c[k] |-> k] \o VotesFor(c, ms \ {k})

\* the user of the i-th vote
Voter(i) == IF i = 1 THEN "u1" ELSE IF i = 2 THEN "u2" ELSE ToString(i)

\* the Mood collection holding one vote per user for moment 1
MoodRows(c) ==
    LET votes == VotesFor(c, SummaryMoods)
    IN  [i \in DOMAIN votes |->
            [id |-> i, momentId |-> 1, userId |-> Voter(i), mood |-> votes[i],
             intensity |-> 3, createdAt |-> 0]]

InitSummary ==
    /\ now = 0
    /\ moments = <<NewMomentB(1, 0, "u1", 0)>>
    /\ posts = <<>>
    /\ \E c \in [SummaryMoods -> 0..MaxVotesPerMood] : moods = MoodRows(c)
    /\ messages = <<>>
    /\ nextId = [moment |-> 2, post |-> 1, mood |-> Len(moods) + 1, message |-> 1]
    /\ req = [r \in Reqs |-> IdleReq]
    /\ sweep = IdleSweep
    /\ sockets = [c \in Conns |-> NoSocket]

NextSummary ==
    \/ SummaryFindB("r1")
    \/ SummaryAggregateB("r1")
    \/ SummaryRespondB("r1")
    \/ UnvoteFindB("r1") \/ UnvoteDeleteB("r1")
    \/ VoteSummaryB("r1") \/ VoteSaveSummaryB("r1")

SpecSummary == InitSummary /\ [][NextSummary]_vars

(***************************************************************************)
(* Properties.                                                             *)
(***************************************************************************)
VotesOf(rows, m, u) == {i \in DOMAIN rows : rows[i].momentId = m /\ rows[i].userId = u}

\* a step in which updateMoodVote of slot r writes its vote
VoteAccepted(r) ==
    /\ req[r].op = "vote" /\ req[r].pc = "saveVote"
    /\ req'[r].pc = "summary"

C3Step ==
    /\ \A i, j \in DOMAIN moods' :
         i /= j => ~(moods'[i].momentId = moods'[j].momentId /\ moods'[i].userId = moods'[j].userId)
    /\ \A r \in Reqs :
         VoteAccepted(r) =>
            LET mine == VotesOf(moods', req[r].mid, req[r].user)
            IN  /\ Cardinality(mine) = 1
                /\ \A i \in mine : /\ moods'[i].mood = req[r].mood
                                   /\ moods'[i].intensity = req[r].intensity
                /\ RowsOf(moods', req[r].mid) = mine =>
                      \A s \in getMoodSummary(moods', req[r].mid) :
                         /\ s.totalVotes = 1
                         /\ Len(s.dominantMoods) = 1
                         /\ s.dominantMoods[1].mood = req[r].mood
                         /\ s.dominantMoods[1].percentage = 100

VoteInProgress == \E r \in Reqs : Busy(r) /\ req[r].op \in {"vote", "unvote"}

\* C4: whenever no vote operation is in progress, the totalVotes stored on a
\* moment equals the number of distinct (momentId, userId) vote rows stored
\* for it.
C4_TotalVotesMatchesRows ==
    ~VoteInProgress =>
       \A m \in DOMAIN moments :
          moments[m].moodSummary.totalVotes
             = Cardinality({moods[i].userId : i \in RowsOf(moods, m)})

\* a post request passes the checks of its handler, which then saves the post
PostAccepted(r) == ~Busy(r) /\ req'[r].op = "post" /\ req'[r].pc = "savePost"

\* C6: a post attempt on a moment whose time window has elapsed
\* (now >= expiresAt) is rejected and creates no post, sweep or no sweep.
C6_ElapsedPostRejected ==
    [][\A r \in Reqs : PostAccepted(r) => now < moments[req'[r].mid].end]_vars

\* C7: when a sweep that started at time t completes, no moment with
\* expiresAt <= t is still active.
C7_SweepExpiresAll ==
    [][(sweep.pc /= "idle" /\ sweep'.pc = "idle") =>
          \A m \in DOMAIN moments' :
             moments'[m].end <= sweep.at => ~moments'[m].isActive]_vars

UserDeleting(m) == \E r \in Reqs : Busy(r) /\ req[r].op = "delete" /\ req[r].mid = m

Unvoting(i) ==
    \E r \in Reqs : /\ req[r].op = "unvote" /\ req[r].pc = "delete"
                    /\ req[r].mid = moods[i].momentId /\ req[r].user = moods[i].userId

C8Step ==
    \A m \in DOMAIN moments :
       (moments[m].end <= now /\ now < moments[m].end + HardDeleteHours /\ ~UserDeleting(m)) =>
          /\ m \in DOMAIN moments'
          /\ \A p \in DOMAIN posts :
                posts[p].momentId = m =>
                   p \in DOMAIN posts' /\ posts'[p].isVisible = posts[p].isVisible
          /\ \A i \in RowsOf(moods, m) : ~Unvoting(i) => i \in DOMAIN moods'

\* C8: between expiresAt and expiresAt + retentionWindow no step removes the
\* moment, removes or hides one of its posts, or removes one of its vote rows
\* (a user's own delete requests aside).
C8_ExpiryRetainsData == [][C8Step]_vars

C9Step ==
    /\ (sweep.pc = "hardMoments" /\ sweep'.pc = "hardPosts") =>
          \A m \in DOMAIN moments :
             /\ m \notin DOMAIN moments' => now >= moments[m].end + HardDeleteHours
             /\ (~moments[m].isActive /\ now >= moments[m].end + HardDeleteHours)
                   => m \notin DOMAIN moments'
    /\ (sweep.pc = "hardPosts" /\ sweep'.pc = "idle") =>
          \A p \in DOMAIN posts' : posts'[p].momentId \notin sweep.ids

\* C9: the purge step of a sweep at time t deletes exactly the expired moments
\* with t >= expiresAt + 7 days, and when the sweep ends no post references a
\* moment it purged.
C9_PurgeAfterRetention == [][C9Step]_vars

Purging == sweep.pc /= "idle" \/ \E r \in Reqs : Busy(r) /\ req[r].op = "delete"

\* C10: once a purge or delete has completed, no Post, Mood or ChatMessage
\* references a moment that no longer exists.
C10_NoOrphans ==
    ~Purging =>
       /\ \A p \in DOMAIN posts : posts[p].momentId \in DOMAIN moments
       /\ \A i \in DOMAIN moods : moods[i].momentId \in DOMAIN moments
       /\ \A i \in DOMAIN messages : messages[i].momentId \in DOMAIN moments


(***************************************************************************)
(* Creating or joining a moment (anonymousId back end).                    *)
(***************************************************************************)
Live(m) == moments[m].isActive /\ moments[m].end > now

\* C1: two createOrJoin requests from different users at the same coordinates
\* never leave two separate active, unexpired moments at that location, however
\* their lookups and saves interleave.
C1_NoDuplicateMoments ==
    \A m1, m2 \in DOMAIN moments :
        (/\ m1 /= m2
         /\ Live(m1) /\ Live(m2)
         /\ moments[m1].loc = moments[m2].loc
         /\ moments[m1].participants[1].anonymousId
               /= moments[m2].participants[1].anonymousId)
        => moments[m1].id = moments[m2].id

WithinRadius(m, loc) ==
    /\ Live(m)
    /\ (Abs(moments[m].loc - loc) * 111) \div 10 <= JoinRadiusMeters

C2Step ==
    \A r \in Reqs :
       /\ (~Busy(r) /\ req'[r].op = "createOrJoin" /\ req'[r].pc = "save") =>
             ((\E m \in DOMAIN moments : WithinRadius(m, req'[r].loc))
                => /\ req'[r].doc.id \in DOMAIN moments
                   /\ WithinRadius(req'[r].doc.id, req'[r].loc))
       /\ (/\ req[r].op = "createOrJoin" /\ req[r].pc = "save" /\ ~Busy(r)'
           /\ req[r].doc.id \in DOMAIN moments) =>
             /\ DOMAIN moments' = DOMAIN moments
             /\ nextId' = nextId
             /\ \E i \in DOMAIN moments'[req[r].doc.id].participants :
                   moments'[req[r].doc.id].participants[i].anonymousId = req[r].user

RECURSIVE SumPercentage(_)
SumPercentage(d) ==
    IF d = <<>> THEN 0 ELSE Head(d).percentage + SumPercentage(Tail(d))

Answering(r) == req[r].op = "getSummary" /\ req[r].pc = "respond"

\* C5 as stated: the percentages of the dominant moods of a returned summary
\* sum to at most 100.
C5_DominantAtMost100 ==
    \A r \in Reqs : Answering(r) => SumPercentage(req[r].summary.dominantMoods) <= 100

\* C5: the percentages of the (at most three) dominant moods of a returned
\* summary, each rounded to the nearest integer, sum to at most 101.
C5_DominantAtMost101 ==
    \A r \in Reqs :
        Answering(r) =>
           /\ Len(req[r].summary.dominantMoods) <= 3
           /\ SumPercentage(req[r].summary.dominantMoods) <= 101

C5_Witness ==
    \E r \in Reqs :
        /\ Answering(r)
        /\ Len(req[r].summary.dominantMoods) = 3
        /\ req[r].summary.totalVotes = 6
        /\ SumPercentage(req[r].summary.dominantMoods) = 101


(***************************************************************************)
(* Lifecycle of a moment.                                                  *)
(***************************************************************************)
C11Step ==
    /\ \A m \in DOMAIN moments :
          m \in DOMAIN moments' =>
             /\ ~moments[m].isActive => ~moments'[m].isActive
             /\ moments[m].isArchived => moments'[m].isArchived
             /\ moments'[m].end = moments[m].end
    /\ \A m \in DOMAIN moments' : m \in DOMAIN moments \/ m = nextId.moment

C12_UniqueParticipants ==
    \A m \in DOMAIN moments :
       \A i, j \in DOMAIN moments[m].participants :
          i /= j => moments[m].participants[i].anonymousId
                       /= moments[m].participants[j].anonymousId

\* the leave request of slot r is for a user the loaded moment does not list
LeavingNonMember(r) ==
    /\ req[r].op = "leave" /\ Busy(r)
    /\ ~HasParticipant(req[r].doc, req[r].user)
    /\ req[r].mid \in DOMAIN moments

C13Step ==
    \A r \in Reqs :
       (LeavingNonMember(r) /\ req'[r] /= req[r]) =>
          /\ moments' = moments
          /\ posts' = posts /\ moods' = moods /\ messages' = messages
          /\ req'[r].pc \in {"idle", "deactivate"}

Accepted(r, ops) == ~Busy(r) /\ Busy(r)' /\ req'[r].op \in ops

\* moment m is stored, active, not archived and its window has not elapsed
Open(m) ==
    /\ m \in DOMAIN moments
    /\ moments[m].isActive /\ ~moments[m].isArchived
    /\ moments[m].end > now

\* C14: a join or leave on an unknown moment fails with NotFound and on an
\* expired or archived moment with Inactive, so neither gets past the checks
\* of its handler and nothing stored changes.
C14_JoinLeaveRejected ==
    [][\A r \in Reqs : Accepted(r, {"join", "leave"}) => Open(req'[r].mid)]_vars


(***************************************************************************)
(* Posting.                                                                *)
(***************************************************************************)
\* C15: a post request of a user who is not a participant of the moment at the
\* time of the request fails with NotParticipant: it never gets past the checks
\* of its handler, so no post is stored and the moment's post counter and mood
\* summary stay as they are.
C15_OnlyParticipantsPost ==
    [][\A r \in Reqs :
          Accepted(r, {"post", "postA"}) =>
             /\ req'[r].mid \in DOMAIN moments
             /\ \E i \in DOMAIN moments[req'[r].mid].participants :
                   moments[req'[r].mid].participants[i].anonymousId = req'[r].user]_vars


(***************************************************************************)
(* Reactions.                                                              *)
(***************************************************************************)
ReactionsOf(post, u) == SelectSeq(post.reactions, LAMBDA x : x.userId = u)

\* the react request of slot r writes post p in this step
ReactWrites(r, p) ==
    /\ req[r].op = "react" /\ req[r].pc = "saveReaction"
    /\ req[r].result = p /\ ~Busy(r)'
    /\ p \in DOMAIN posts /\ posts'[p] /= posts[p]

C16Step ==
    /\ \A p \in DOMAIN posts' : \A u \in Users : Len(ReactionsOf(posts'[p], u)) <= 1
    /\ \A r \in Reqs : \A p \in DOMAIN posts :
          ReactWrites(r, p) =>
             /\ ReactionsOf(posts'[p], req[r].user)
                   = <<[userId |-> req[r].user, type |-> req[r].mood]>>
             /\ \A w \in Users \ {req[r].user} :
                   ReactionsOf(posts'[p], w) = ReactionsOf(posts[p], w)
             /\ Len(posts'[p].reactions)
                   = IF ReactionsOf(posts[p], req[r].user) = <<>>
                     THEN Len(posts[p].reactions) + 1
                     ELSE Len(posts[p].reactions)

C17_VoteRejectedWhenClosed ==
    [][\A r \in Reqs : Accepted(r, {"vote"}) => Open(req'[r].mid)]_vars

\* the handler of slot r holds the summary it has just aggregated
Summarised(r) ==
    \/ Answering(r)
    \/ req[r].op \in {"vote", "unvote"} /\ req[r].pc = "saveSummary"

\* the first vote recorded for a mood
FirstVote(rows, m, k) ==
    CHOOSE i \in GroupRows(rows, m, k) : \A j \in GroupRows(rows, m, k) : i <= j

\* mood a ranks before mood b: more votes, or as many and recorded earlier
RanksBefore(rows, m, a, b) ==
    LET ca == Cardinality(GroupRows(rows, m, a))
        cb == Cardinality(GroupRows(rows, m, b))
    IN  ca > cb \/ (ca = cb /\ FirstVote(rows, m, a) < FirstVote(rows, m, b))

\* C18: the dominant list of a summary holds exactly the min(3, number of voted
\* moods) moods with the most votes in non-increasing order of count, and of
\* moods with equal counts the one recorded earliest comes first, so the same
\* votes always give the same list.
C18_DominantOrder ==
    \A r \in Reqs :
       Summarised(r) =>
          LET m == req[r].mid
              d == req[r].summary.dominantMoods
              keys == GroupKeys(moods, m)
              listed == {d[i].mood : i \in DOMAIN d}
          IN  /\ Len(d) = IF Cardinality(keys) < 3 THEN Cardinality(keys) ELSE 3
              /\ listed \subseteq keys /\ Cardinality(listed) = Len(d)
              /\ \A i \in DOMAIN d : d[i].count = Cardinality(GroupRows(moods, m, d[i].mood))
              /\ \A i, j \in DOMAIN d : i < j => RanksBefore(moods, m, d[i].mood, d[j].mood)
              /\ \A k \in keys \ listed : \A i \in DOMAIN d : RanksBefore(moods, m, d[i].mood, k)

\* C19: a summary of a moment without votes (never voted, or the last vote was
\* removed) has totalVotes = 0 and an empty dominant list; otherwise every
\* dominant entry's percentage is count / totalVotes * 100 rounded to the
\* nearest integer.
C19_PercentagesRounded ==
    \A r \in Reqs :
       Summarised(r) =>
          LET n == Cardinality(RowsOf(moods, req[r].mid))
              d == req[r].summary.dominantMoods
          IN  /\ req[r].summary.totalVotes = n
              /\ n = 0 => d = <<>>
              /\ \A i \in DOMAIN d :
                    /\ d[i].percentage \in 0..100
                    /\ 2 * n * d[i].percentage <= 200 * d[i].count + n
                    /\ 200 * d[i].count + n < 2 * n * (d[i].percentage + 1)

C19_Witness ==
    /\ req["r1"].op = "unvote" /\ req["r1"].pc = "saveSummary"
    /\ moods = <<>>
    /\ req["r1"].summary.totalVotes = 0
    /\ req["r1"].summary.dominantMoods = <<>>


(***************************************************************************)
(* Chat rooms.                                                             *)
(***************************************************************************)
\* C20: a connection is bound to a moment's room only if, when it joins, its
\* user is a participant of that moment or the moment is archived; any other
\* join is rejected, so the connection gets no chat history and none of the
\* room's later broadcasts.
C20_RoomOnlyForParticipants ==
    [][\A c \in Conns : \A m \in sockets'[c].rooms \ sockets[c].rooms :
          /\ m \in DOMAIN moments
          /\ \/ HasParticipant(moments[m], sockets[c].userId)
             \/ moments[m].isArchived]_vars


\* C21: when a joined connection leaves or disconnects, its user is taken
\* out of the moment's participant list, the connection is no longer bound
\* to the room, and the connections still in the room receive the leave
\* event with the reduced participant count.
C21_LeaveRemovesParticipant ==
    [][\A r \in Reqs :
          (/\ req[r].op \in {"leaveMoment", "disconnect"}
           /\ req[r].pc = "count"
           /\ ~Busy(r)'
           /\ req[r].mid \in DOMAIN moments')
          => /\ \A i \in DOMAIN moments'[req[r].mid].participants :
                    moments'[req[r].mid].participants[i].anonymousId /= req[r].user
             /\ req[r].mid \notin sockets'[req[r].conn].rooms
             /\ \A x \in InRoom(sockets', req[r].mid) \ {req[r].conn} :
                    sockets'[x].last =
                        Event("userLeft", Len(moments'[req[r].mid].participants))]_vars

\* C22: a chat message gets past the checks of the send handler, and so is
\* persisted and broadcast, only if the moment is open and the sender's
\* connection is bound to the moment's room as a participant.
C22_SendOnlyWhenBound ==
    [][\A r \in Reqs :
          Accepted(r, {"sendMessage"})
          => LET c == req'[r].conn
                 m == req'[r].mid
             IN  /\ Open(m)
                 /\ m \in sockets[c].rooms
                 /\ HasParticipant(moments[m], sockets[c].userId)]_vars

\* C23: every sendMessage that passes validation ends with the message
\* persisted, delivered as newMessage to every connection bound to the room,
\* the sender included, and confirmed to the sender with messageSent.
C23_ValidSendDelivered ==
    [][\A r \in Reqs :
          (req[r].op = "sendMessage" /\ req[r].pc = "save" /\ ~Busy(r)')
          => \E i \in DOMAIN messages' \ DOMAIN messages :
                /\ messages'[i].momentId = req[r].mid
                /\ \A x \in InRoom(sockets, req[r].mid) :
                       sockets'[x].inbox = Append(sockets[x].inbox, i)
                /\ sockets'[req[r].conn].last = Event("messageSent", i)]_vars

\* the stored messages of moment m
MessagesOf(m) == {i \in DOMAIN messages : messages[i].momentId = m}

\* the join handler of slot r reads the chat history with this step
ReadsHistory(r) ==
    req[r].op = "joinRoom" /\ req[r].pc = "history" /\ req'[r].pc = "emitHistory"

\* the history lists its messages oldest first
OldestFirst(h) ==
    \A n \in 1..(Len(h) - 1) : messages[h[n]].createdAt <= messages[h[n + 1]].createdAt

\* every stored message of the moment that is not past its expiry timestamp
\* is in the chat history a joining connection is sent, and the history is
\* ordered oldest first
C24_HistoryHasEveryMessage ==
    [][\A r \in Reqs :
          ReadsHistory(r)
          => /\ \A i \in MessagesOf(req[r].mid) :
                    messages[i].expiresAt > now
                    => \E n \in DOMAIN req'[r].summary : req'[r].summary[n] = i
             /\ OldestFirst(req'[r].summary)]_vars

\* C24: every chat message sent in a moment and not yet past its expiry
\* timestamp is in the chat history delivered to a connection that joins
\* afterwards, provided fewer than HistoryLimit other messages of the moment
\* are as new or newer; the history lists its messages oldest first.
C24_HistoryHasRecentMessages ==
    [][\A r \in Reqs :
          ReadsHistory(r)
          => /\ \A i \in MessagesOf(req[r].mid) :
                    (/\ messages[i].expiresAt > now
                     /\ Cardinality({j \in MessagesOf(req[r].mid) \ {i} :
                                        messages[j].createdAt >= messages[i].createdAt})
                          < HistoryLimit)
                    => \E n \in DOMAIN req'[r].summary : req'[r].summary[n] = i
             /\ OldestFirst(req'[r].summary)]_vars

\* a join has read a full history while the moment holds more messages
C24_Witness ==
    /\ req["r1"].op = "joinRoom" /\ req["r1"].pc = "emitHistory"
    /\ Len(req["r1"].summary) = HistoryLimit
    /\ Cardinality(MessagesOf(req["r1"].mid)) > HistoryLimit
    /\ \A i \in MessagesOf(req["r1"].mid) : messages[i].expiresAt > now
    /\ messages[req["r1"].summary[1]].createdAt
         < messages[req["r1"].summary[HistoryLimit]].createdAt

\* C25: no chat message whose expiry timestamp (createdAt + 24h) is at or
\* before now is in a chat history sent to a joining connection, whether or
\* not the cleanup job has run since the message expired.
C25_NoExpiredInHistory ==
    [][\A r \in Reqs :
          ReadsHistory(r)
          => \A n \in DOMAIN req'[r].summary :
                 messages[req'[r].summary[n]].expiresAt > now]_vars

\* C26: a connection bound to a room receives the new_message events of the
\* room in the order in which the store accepted the messages (the order of
\* their ids), even when two send handlers interleave at their store write.
C26_DeliveryInStoreOrder ==
    \A c \in Conns : \A n \in 1..(Len(sockets[c].inbox) - 1) :
        sockets[c].inbox[n] < sockets[c].inbox[n + 1]

\* C27: a handler of a socket event (join, leave, send) that ends in an
\* error emits an error event to the connection that triggered it, and an
\* error event never reaches any other connection.
C27_ErrorsToTriggeringConnection ==
    [][\A c \in Conns :
          /\ (~sockets[c].failed /\ sockets'[c].failed)
             => sockets'[c].last = Event("error", 0)
          /\ (sockets'[c].last = Event("error", 0) /\ sockets'[c].last /= sockets[c].last)
             => /\ sockets'[c].failed
                /\ \A x \in Conns \ {c} : sockets'[x].last = sockets[x].last]_vars

\* an error event never reaches a connection other than the one whose
\* handler failed
C27_ErrorsNotBroadcast ==
    [][\A c \in Conns :
          (sockets'[c].last = Event("error", 0) /\ sockets'[c].last /= sockets[c].last)
          => /\ sockets'[c].failed
             /\ \A x \in Conns \ {c} : sockets'[x].last = sockets[x].last]_vars

(***************************************************************************)
(* The cleanup job.                                                        *)
(***************************************************************************)
\* C28: when a run of the cleanup job that began at time t ends at time t,
\* a second run at t changes nothing in the store: the moments it closed,
\* the posts it hid and the documents it deleted are left as they are.
C28_SweepIdempotent ==
    [][(sweep.pc = "hardPosts" /\ sweep'.pc = "idle" /\ sweep.at = now)
       => cleanupExpiredData(Store', now) = Store']_vars

\* a run is about to end that closed the moment, hid a post and deleted a
\* chat message
C28_Witness ==
    /\ sweep.pc = "hardPosts" /\ sweep.at = now
    /\ \E m \in DOMAIN moments : ~moments[m].isActive
    /\ \E p \in DOMAIN posts : ~posts[p].isVisible
    /\ messages = <<>> /\ nextId.message > 1

\* the same for cleanupExpiredMoments of the anonymousId back end: a run
\* that began and ended at time t leaves no moment to archive and no
\* archived moment to delete
SweepIdempotentA ==
    [][(/\ \/ sweep.pc = "archive" /\ sweep.ids = {}
           \/ sweep.pc = "deleteMoments"
        /\ sweep'.pc = "idle"
        /\ sweep.at = now)
       => \A m \in DOMAIN moments' :
             /\ moments'[m].end <= now => moments'[m].isArchived
             /\ moments'[m].end > now - ArchiveDeleteHours]_vars

\* C29: the step of the cleanup job that deletes chat messages leaves no
\* message whose expiry timestamp is at or before now, whatever the state
\* of its moment, and keeps every message whose expiry timestamp is later.
C29_ExpiredMessagesDeleted ==
    [][(sweep.pc = "deleteMessages" /\ sweep'.pc = "hardMoments")
       => \A i \in DOMAIN messages :
             /\ messages[i].expiresAt <= now => i \notin DOMAIN messages'
             /\ messages[i].expiresAt > now => i \in DOMAIN messages']_vars

(***************************************************************************)
(* Events of POST /api/moments.                                            *)
(***************************************************************************)
\* the createOrJoin of slot r adds its user to stored moment m with this step
JoinsExisting(r, m) ==
    /\ req[r].op = "createOrJoin" /\ req[r].pc = "save"
    /\ req[r].doc.id = m
    /\ m \in DOMAIN moments
    /\ Len(moments'[m].participants) = Len(moments[m].participants) + 1

\* C30: a createOrJoin that adds a user to an existing moment delivers a
\* participantJoined event with the updated participant count to every
\* connection in the moment's room.
C30_JoinBroadcastsCount ==
    [][\A r \in Reqs : \A m \in DOMAIN moments :
          JoinsExisting(r, m)
          => \A c \in InRoom(sockets, m) :
                 sockets'[c].last \in
                     {Event("participantJoined", Len(moments'[m].participants)),
                      Event("participant_joined", Len(moments'[m].participants))}]_vars

(***************************************************************************)
(* What POST /api/moments creates and what it reports.                     *)
(***************************************************************************)
\* slot r looks up the moments near its coordinates with this step
LooksUp(r) == ~Busy(r) /\ req'[r].op = "createOrJoin" /\ req'[r].pc = "save"

\* the createOrJoin of slot r answers with this step
Answers(r) == req[r].op = "createOrJoin" /\ req[r].pc = "save" /\ ~Busy(r)'

C31Step ==
    \A r \in Reqs :
       /\ LooksUp(r) =>
             (req'[r].doc.id = 0
                <=> ~\E m \in DOMAIN moments : WithinRadius(m, req'[r].loc))
       /\ (Answers(r) /\ req[r].doc.id = 0) =>
             /\ req'[r].status = "created"
             /\ \E n \in DOMAIN moments' \ DOMAIN moments :
                   /\ DOMAIN moments' = DOMAIN moments \cup {n}
                   /\ req'[r].result = n
                   /\ moments'[n].createdAt = now
                   /\ moments'[n].end = now + 24
                   /\ moments'[n].participants = <<[anonymousId |-> req[r].user]>>
             /\ \A m \in DOMAIN moments : moments'[m] = moments[m]
       /\ (Answers(r) /\ req[r].doc.id /= 0) =>
             /\ DOMAIN moments' = DOMAIN moments
             /\ req'[r].status \in {"joined", "error"}
             /\ req'[r].status = "joined" =>
                   /\ req'[r].result = req[r].doc.id
                   /\ \E i \in DOMAIN moments'[req[r].doc.id].participants :
                         moments'[req[r].doc.id].participants[i].anonymousId = req[r].user

\* C31: a createOrJoin whose lookup finds no active, unexpired moment within
\* the join radius stores exactly one new moment, which expires 24 hours after
\* its creation and has the caller as its only participant, and reports it as
\* created; a createOrJoin whose lookup finds one stores no moment and reports
\* a join of the moment it found, with the caller among its participants.
C31_CreatesOneMoment == [][C31Step]_vars

C31_Witness ==
    /\ ~Busy("r1")
    /\ req["r1"].status = "created"
    /\ req["r1"].result \in DOMAIN moments
    /\ Cardinality(DOMAIN moments) = 2
    /\ Len(moments[req["r1"].result].participants) = 1

(***************************************************************************)
(* The scheduled sweep.                                                    *)
(***************************************************************************)
\* moment m is stored and active although its window has elapsed
Overdue(m) == m \in DOMAIN moments /\ moments[m].isActive /\ now >= moments[m].end

\* C32: with the timer of the cleanup job firing whenever it is due, every
\* moment that is still active when its window has elapsed is eventually
\* inactive or gone.
C32_OverdueEventuallyExpired ==
    \A m \in 1..MaxMomentsB :
        Overdue(m) ~> (m \notin DOMAIN moments \/ ~moments[m].isActive)

(***************************************************************************)
(* The inactivity prune.                                                   *)
(***************************************************************************)
\* participant p was last active more than 30 minutes before hour t
Inactive(p, t) == (t - p.lastActive) * 60 > 30

\* the job handles moment m with this step
Prunes(m) ==
    /\ sweep.pc = "prune" /\ m \in sweep.ids
    /\ \A x \in sweep.ids : m <= x
    /\ sweep' /= sweep

C33Step ==
    /\ \A m \in DOMAIN moments :
          Prunes(m) =>
             LET kept == SelectSeq(moments[m].participants,
                                   LAMBDA p : ~Inactive(p, sweep.at))
             IN  /\ m \in DOMAIN moments'
                 /\ moments'[m].participants = kept
                 /\ moments'[m].isActive = (moments[m].isActive /\ kept /= <<>>)
                 /\ moments'[m].isArchived = moments[m].isArchived
                 /\ moments'[m].end = moments[m].end
                 /\ sweep'.pc = "prune" /\ sweep'.ids = sweep.ids \ {m}
                 /\ \A o \in DOMAIN moments \ {m} : moments'[o] = moments[o]
    /\ (sweep.pc = "idle" /\ sweep'.pc = "prune") =>
          sweep'.ids = {m \in DOMAIN moments : moments[m].isActive}
    /\ (sweep.pc = "prune" /\ sweep'.pc = "idle") => sweep.ids = {}

VisiblePosts(m) == {p \in DOMAIN posts : posts[p].momentId = m /\ posts[p].isVisible}

\* C34: whenever no post or post deletion is in progress, the post counter of
\* every moment equals the number of its visible posts.
C34_CounterMatchesPosts ==
    (\A r \in Reqs : ~Busy(r)) =>
        \A m \in DOMAIN moments : moments[m].totalPosts = Cardinality(VisiblePosts(m))

(***************************************************************************)
(* The mood summary of the anonymousId back end.                           *)
(***************************************************************************)
\* C35: in every reachable state the total of a moment's mood summary is the
\* sum of its counters per mood.
C35_TotalIsSumOfMoods ==
    \A m \in DOMAIN moments :
        moments[m].moodSummary.total
            = moments[m].moodSummary.calm + moments[m].moodSummary.happy

(***************************************************************************)
(* PUT /api/moments/:id/join next to leaves and the inactivity prune.      *)
(***************************************************************************)
\* the join of slot r answers 200 with this step
JoinSucceeds(r) ==
    /\ req[r].op = "join" /\ req[r].pc = "add" /\ ~Busy(r)'
    /\ req[r].mid \in DOMAIN moments

\* C36: when a join request answers with success, the moment is active and
\* the joining user is one of its participants, also when the join runs next
\* to the leave of the last other participant or to the inactivity prune.
C36_JoinedMomentIsActive ==
    [][\A r \in Reqs :
          JoinSucceeds(r) =>
             /\ moments'[req[r].mid].isActive
             /\ HasParticipant(moments'[req[r].mid], req[r].user)]_vars

(***************************************************************************)
(* The rooms of a connection.                                              *)
(***************************************************************************)
\* C37: a connection is in at most one moment room, and that room is the one
\* of the moment recorded as its current moment.
C37_OneRoomPerConnection ==
    \A c \in Conns :
        /\ Cardinality(sockets[c].rooms) <= 1
        /\ sockets[c].rooms \subseteq {sockets[c].currentMoment, sockets[c].currentMomentId}

(***************************************************************************)
(* Messages sent while a connection joins.                                 *)
(***************************************************************************)
\* the elements of sequence q
Elements(q) == {q[i] : i \in DOMAIN q}

\* the join handler of slot r hands its connection the chat history with this step
HandsHistory(r) == req[r].op = "joinRoom" /\ req[r].pc = "emitHistory" /\ ~Busy(r)'

\* message i is stored and its broadcast is still to come
BroadcastPending(i) ==
    \E r \in Reqs : req[r].op = "sendMessage" /\ req[r].pc = "emit" /\ req[r].result = i

C38Step ==
    \A r \in Reqs :
       /\ HandsHistory(r) =>
             /\ req[r].mid \in sockets[req[r].conn].rooms
             /\ \A i \in MessagesOf(req[r].mid) :
                   \/ i \in Elements(sockets'[req[r].conn].last.msgs)
                   \/ i \in Elements(sockets[req[r].conn].inbox)
                   \/ BroadcastPending(i)
       /\ (req[r].op = "sendMessage" /\ req[r].pc = "emit" /\ ~Busy(r)') =>
             /\ req[r].result \in DOMAIN messages
             /\ \A c \in InRoom(sockets, req[r].mid) :
                   req[r].result \in Elements(sockets'[c].inbox)
       /\ \A c \in Conns : sockets[c].rooms \subseteq sockets'[c].rooms

\* C38: no message is missed across a join.  When a join handler hands its
\* connection the chat history, the connection is in the room and every
\* stored message of the moment is in that history, has already been delivered
\* to the connection, or is still to be broadcast; every broadcast is of a
\* stored message and reaches every connection in the room; and no
\* connection drops out of a room.
C38_NoMessageMissed == [][C38Step]_vars

C38_Witness ==
    /\ sockets["c2"].last.name = "chat_history"
    /\ sockets["c2"].last.msgs = <<1>>
    /\ 2 \in DOMAIN messages
    /\ BroadcastPending(2)

=============================================================================
